---- MODULE Spec2Model ----
(***************************************************************************)
(* The review state store of the spaced-repetition subsystem:             *)
(* src/src/SRS/cardReviewState.ts, class CardReviewState (the version of  *)
(* lines 114-243, the one that reports failures to the user).           *)
(*                                                                         *)
(* The store is a Map from card id to StoredCardState, loaded from        *)
(* .vscode/lattice.cards.json by the constructor and written back whole   *)
(* after every mutation.  The Map is modelled as the sequence of its      *)
(* entries in insertion order, a Date as its time value (a number, or     *)
(* InvalidDate for NaN), an optional property as a sequence of length at  *)
(* most one, and a JSON string holding a date as a record of its own, so  *)
(* that a Date and its serialised form are different values.              *)
(*                                                                         *)
(* A step is one call of a public method, taken whole: the change of the  *)
(* map, the saveState it triggers (saveState has no await, so the write   *)
(* is done before the method returns) and the rejection handler that runs *)
(* when the write failed.  Whether a write fails is the environment's     *)
(* choice.  lastOp, pre, marked and fresh record what the caller of the   *)
(* last call could observe; no method reads them.                         *)
(*                                                                         *)
(* SpecManager puts the store under its owner, CardManager                *)
(* (src/src/SRS/cardManager.ts), with the markdown documents of the       *)
(* workspace and the review view (CardReviewView) that rates cards.       *)
(* A document is the sequence of its lines, a line the sequence of its    *)
(* tokens, and the parser (src/src/SRS/mdParser.ts and the card parser of *)
(* src/unnamed/part_008) works on them as the code works on the string.   *)
(* An await is the end of a step: a call of handleFileChange waits in     *)
(* tasks, a call of insertCardId in edits, a call of initialize() in      *)
(* boot.calls, and what runs in between is the scheduler's choice.        *)
(*                                                                         *)
(* SpecIds takes generateCardId alone (src/src/SRS/cardIdentity.ts),      *)
(* SpecParser takes MdParser.parseFile alone over texts with and without  *)
(* the disabled marker, SpecInsert follows a created file through         *)
(* handleFileChange and the insertions of ids it starts, and SpecBoot     *)
(* follows initialize() and the file changes handled around it.           *)
(*                                                                         *)
(* SpecReview takes the review view (src/unnamed/part_007) together with  *)
(* its page (src/lib/cards/cardReview.js): the messages each side posts   *)
(* wait in posted until the other side receives them, in the order they   *)
(* were posted.  SpecSession is the same session with the clock standing  *)
(* still, every rescheduled card due later, and weak fairness for the     *)
(* delivery of messages and for the user's clicks and keys.               *)
(***************************************************************************)
EXTENDS Integers, Sequences, FiniteSets, TLC

\* ------------------------------------------------------------------ bounds
\* The clock (new Date()) and every due date range over 0..MaxTime.
MaxTime == 1
\* At most MaxTasks calls of handleFileChange wait at their await.
MaxTasks == 1
\* The state file found by the constructor holds at most MaxFileLen entries.
MaxFileLen == 2

\* ------------------------------------------------------------------ values
\* The card ids callers use.  NoId is the id of a card that has none
\* (card.id undefined or ''), and the cardId of a file entry without one.
CardIds == {"a", "b"}
NoId == ""
Times == 0..MaxTime
\* The time value of an Invalid Date (NaN): what new Date(s) gives for a
\* string s that is no date.
InvalidDate == -1

\* A JSON value standing where a date is expected: the ISO string of a time,
\* a string that is no date, or null.
IsoString(t) == [text |-> "iso", t |-> t]
GarbageString == [text |-> "garbage", t |-> 0]
JsonNull == [text |-> "null", t |-> 0]

\* Date.prototype.toISOString, of a valid Date.
toISOString(d) == IsoString(d)
\* new Date(v) of a JSON value: the time of an ISO string, NaN for a string
\* that is no date, the epoch for null.
NewDate(v) ==
    CASE v.text = "iso" -> v.t
      [] v.text = "null" -> 0
      [] OTHER -> InvalidDate
\* JSON.stringify of a Date (Date.prototype.toJSON): null for an Invalid Date.
DateToJSON(d) == IF d = InvalidDate THEN JsonNull ELSE IsoString(d)
\* JavaScript truthiness of a JSON value standing for a date: null is falsy,
\* a non-empty string is truthy.
JsonTruthy(v) == v.text # "null"
\* d1 <= d2 on Dates: false as soon as one of them is NaN.
DateLE(d1, d2) == d1 # InvalidDate /\ d2 # InvalidDate /\ d1 <= d2

\* An optional property: absent, or present with a value.
Absent == << >>
Present(v) == <<v>>
\* JavaScript truthiness of an optional boolean property.
Truthy(opt) == opt = Present(TRUE)

\* createEmptyCard(now) of ts-fsrs: a new card, due at once, never reviewed.
createEmptyCard(now) == [due |-> now, reps |-> 0, last_review |-> Absent]

\* The memory states callers write back through updateState: a reviewed card,
\* due at once or due at the end of time.
ReviewedCards == {[due |-> d, reps |-> 1, last_review |-> Present(0)] : d \in {0, MaxTime}}

\* ------------------------------------------------------------------ Map
MapKeys(m) == {m[i].key : i \in DOMAIN m}
MapHas(m, k) == \E i \in DOMAIN m : m[i].key = k
MapIndex(m, k) == CHOOSE i \in DOMAIN m : m[i].key = k
MapGet(m, k) == m[MapIndex(m, k)].val
MapSet(m, k, v) ==
    IF MapHas(m, k)
    THEN [m EXCEPT ![MapIndex(m, k)] = [key |-> k, val |-> v]]
    ELSE Append(m, [key |-> k, val |-> v])
MapValues(m) == [i \in DOMAIN m |-> m[i].val]
EmptyMap == << >>

\* ------------------------------------------------------------------ the state file
\* JSON.stringify of one StoredCardState: Dates become ISO strings, absent
\* properties stay absent.
CardToJSON(c) ==
    [due |-> DateToJSON(c.due),
     reps |-> c.reps,
     last_review |-> IF c.last_review = Absent THEN Absent
                     ELSE Present(DateToJSON(c.last_review[1]))]
StateToJSON(st) ==
    [type |-> "object",
     cardId |-> st.cardId,
     fsrsCard |-> Present(CardToJSON(st.fsrsCard)),
     lastReviewDate |-> st.lastReviewDate,
     deleted |-> st.deleted]
\* Array.from(this.states.values()) as written by JSON.stringify.
Serialize(m) == [i \in DOMAIN m |-> StateToJSON(m[i].val)]

\* An element of the parsed array that is null: it has no properties, and
\* reading state.cardId of it throws a TypeError.
NullEntry ==
    [type |-> "null", cardId |-> NoId, fsrsCard |-> Absent,
     lastReviewDate |-> Absent, deleted |-> Absent]
LoadThrows(e) == e.type = "null"

\* The body of loadState's loop for one parsed entry: the Dates of the entry's
\* fsrsCard are rebuilt from their strings, in place.
ReviveCard(jc) ==
    [due |-> NewDate(jc.due),
     reps |-> jc.reps,
     last_review |-> IF jc.last_review # Absent /\ JsonTruthy(jc.last_review[1])
                     THEN Present(NewDate(jc.last_review[1]))
                     ELSE Absent]
\* LoadEntry collecting the entries in a list instead of a map keyed by id.
LoadEntryAppending(m, e) ==
    IF e.cardId = NoId THEN m
    ELSE IF e.fsrsCard = Absent THEN m
    ELSE Append(m, [key |-> e.cardId,
                    val |-> [cardId |-> e.cardId,
                             fsrsCard |-> ReviveCard(e.fsrsCard[1]),
                             lastReviewDate |-> e.lastReviewDate,
                             deleted |-> e.deleted]])

LoadEntry(m, e) ==
    IF e.cardId = NoId THEN m
    ELSE IF e.fsrsCard = Absent THEN m
    ELSE MapSet(m, e.cardId,
                [cardId |-> e.cardId,
                 fsrsCard |-> ReviveCard(e.fsrsCard[1]),
                 lastReviewDate |-> e.lastReviewDate,
                 deleted |-> e.deleted])
RECURSIVE LoadEntries(_, _)
LoadEntries(m, entries) ==
    IF entries = << >> THEN m
    ELSE LoadEntries(LoadEntry(m, Head(entries)), Tail(entries))

\* The file the constructor finds: none, one that JSON.parse rejects, or an
\* array of entries.
NoFile == [kind |-> "absent", entries |-> << >>]
CorruptFile == [kind |-> "corrupt", entries |-> << >>]
ArrayFile(entries) == [kind |-> "array", entries |-> entries]

\* A file that exists and that readFileSync fails to read.
UnreadableFile == [kind |-> "unreadable", entries |-> << >>]

\* loadState reporting nothing and keeping nothing when the file is bad.
loadStateSilent(file) ==
    CASE file.kind = "array" /\ ~\E i \in DOMAIN file.entries : LoadThrows(file.entries[i]) ->
            [states |-> LoadEntries(EmptyMap, file.entries), errors |-> 0, threw |-> FALSE]
      [] OTHER -> [states |-> EmptyMap, errors |-> 0, threw |-> FALSE]

\* loadState: the map the constructor leaves, the error messages it shows,
\* and whether the constructor throws.  Whatever is thrown inside the try
\* (by readFileSync, by JSON.parse, by the loop on a null element) ends in
\* the catch, which shows one error message and starts from an empty map.
loadState(file) ==
    CASE file.kind = "absent" -> [states |-> EmptyMap, errors |-> 0, threw |-> FALSE]
      [] file.kind \in {"corrupt", "unreadable"} ->
            [states |-> EmptyMap, errors |-> 1, threw |-> FALSE]
      [] \E i \in DOMAIN file.entries : LoadThrows(file.entries[i]) ->
            [states |-> EmptyMap, errors |-> 1, threw |-> FALSE]
      [] OTHER -> [states |-> LoadEntries(EmptyMap, file.entries), errors |-> 0, threw |-> FALSE]

\* The files loadState ends in its catch on.
LoadFails(file) ==
    \/ file.kind \in {"corrupt", "unreadable"}
    \/ file.kind = "array" /\ \E i \in DOMAIN file.entries : LoadThrows(file.entries[i])

\* saveState keeping the entries of the file whose cardId the map does not
\* hold.
saveStateMerging(m, file, ok) ==
    LET kept == SelectSeq(file.entries, LAMBDA e : e.cardId \notin MapKeys(m))
    IN  IF ok
        THEN [disk |-> ArrayFile(kept \o Serialize(m)), errors |-> 0, rejected |-> FALSE]
        ELSE [disk |-> file, errors |-> 1, rejected |-> TRUE]

\* saveState writing only the records that are not marked deleted.
saveStateLive(m, file, ok) ==
    LET live == SelectSeq(m, LAMBDA e : ~Truthy(e.val.deleted))
    IN  IF ok
        THEN [disk |-> ArrayFile(Serialize(live)), errors |-> 0, rejected |-> FALSE]
        ELSE [disk |-> file, errors |-> 1, rejected |-> TRUE]

\* saveState: writeFileSync of the whole map.  ok is whether the write
\* succeeds; a failed write shows an error message and rejects the promise
\* saveState returns.
saveState(m, file, ok) ==
    IF ok
    THEN [disk |-> ArrayFile(Serialize(m)), errors |-> 0, rejected |-> FALSE]
    ELSE [disk |-> file, errors |-> 1, rejected |-> TRUE]

\* ------------------------------------------------------------------ the operations
\* Each operation is a function of the map (and the call's arguments) giving
\* the map it leaves, what it returns, whether it throws, and whether it calls
\* saveState.
Result(m, ret, threw, save) == [states |-> m, ret |-> ret, threw |-> threw, save |-> save]

\* NewState with the new card due one time unit after its creation.
NewStateDueLater(id, now) ==
    [cardId |-> id, fsrsCard |-> createEmptyCard(now + 1),
     lastReviewDate |-> Absent, deleted |-> Absent]

\* The record getOrCreateState stores for a card seen for the first time.
NewState(id, now) ==
    [cardId |-> id, fsrsCard |-> createEmptyCard(now),
     lastReviewDate |-> Absent, deleted |-> Absent]

\* Restored giving the record a new card's memory state.
RestoredAsNew(st) ==
    [st EXCEPT !.deleted = Absent, !.fsrsCard = createEmptyCard(0)]

\* delete existingState.deleted
Restored(st) == [st EXCEPT !.deleted = Absent]

\* getOrCreateState treating a deleted record as no record: the restored
\* card starts again as a new card.
getOrCreateStateResetting(m, id, now) ==
    IF id = NoId THEN Result(m, << >>, TRUE, FALSE)
    ELSE IF MapHas(m, id) /\ ~Truthy(MapGet(m, id).deleted)
    THEN Result(m, <<MapGet(m, id).fsrsCard>>, FALSE, FALSE)
    ELSE Result(MapSet(m, id, NewState(id, now)),
                <<NewState(id, now).fsrsCard>>, FALSE, TRUE)

getOrCreateState(m, id, now) ==
    IF id = NoId THEN Result(m, << >>, TRUE, FALSE)
    ELSE IF MapHas(m, id)
    THEN LET existingState == MapGet(m, id) IN
         IF Truthy(existingState.deleted)
         THEN Result(MapSet(m, id, Restored(existingState)),
                     <<Restored(existingState).fsrsCard>>, FALSE, TRUE)
         ELSE Result(m, <<existingState.fsrsCard>>, FALSE, FALSE)
    ELSE Result(MapSet(m, id, NewState(id, now)),
                <<NewState(id, now).fsrsCard>>, FALSE, TRUE)

\* Updated without the stamp of lastReviewDate.
UpdatedUnstamped(st, newState, now) == [st EXCEPT !.fsrsCard = newState]

\* Updated taking the update for a sign of life: the deleted flag is cleared.
UpdatedRestoring(st, newState, now) ==
    [st EXCEPT !.fsrsCard = newState, !.lastReviewDate = Present(toISOString(now)),
               !.deleted = Absent]

\* existingState.fsrsCard = newState; existingState.lastReviewDate = now
Updated(st, newState, now) ==
    [st EXCEPT !.fsrsCard = newState, !.lastReviewDate = Present(toISOString(now))]

\* updateState creating the record it does not find.
updateStateUpserting(m, id, newState, now) ==
    IF MapHas(m, id)
    THEN Result(MapSet(m, id, Updated(MapGet(m, id), newState, now)), << >>, FALSE, TRUE)
    ELSE Result(MapSet(m, id, Updated(NewState(id, now), newState, now)), << >>, FALSE, TRUE)

updateState(m, id, newState, now) ==
    IF MapHas(m, id)
    THEN Result(MapSet(m, id, Updated(MapGet(m, id), newState, now)), << >>, FALSE, TRUE)
    ELSE Result(m, << >>, FALSE, FALSE)

\* The filter of getDueCards without its test of the deleted flag.
IsDueIgnoringDeleted(st, now) == DateLE(st.fsrsCard.due, now)

\* The filter of getDueCards.
IsDue(st, now) == ~Truthy(st.deleted) /\ DateLE(st.fsrsCard.due, now)

\* The keys of the entries that pass the filter, in the map's order.
RECURSIVE DueKeys(_, _)
DueKeys(entries, now) ==
    IF entries = << >> THEN << >>
    ELSE IF IsDue(Head(entries).val, now)
         THEN <<Head(entries).key>> \o DueKeys(Tail(entries), now)
         ELSE DueKeys(Tail(entries), now)

getDueCards(m, now) == Result(m, DueKeys(m, now), FALSE, FALSE)

\* Deleted as a toggle of the flag.
DeletedToggled(st) ==
    [st EXCEPT !.deleted = IF Truthy(st.deleted) THEN Absent ELSE Present(TRUE)]

\* state.deleted = true
Deleted(st) == [st EXCEPT !.deleted = Present(TRUE)]

\* markCardAsDeleted removing the record from the map.
markCardAsDeletedRemoving(m, id) ==
    IF MapHas(m, id)
    THEN Result(SelectSeq(m, LAMBDA e : e.key # id), << >>, FALSE, TRUE)
    ELSE Result(m, << >>, FALSE, FALSE)

markCardAsDeleted(m, id) ==
    IF MapHas(m, id)
    THEN Result(MapSet(m, id, Deleted(MapGet(m, id))), << >>, FALSE, TRUE)
    ELSE Result(m, << >>, FALSE, FALSE)

\* state?.deleted ?? false
isCardDeleted(m, id) ==
    Result(m,
           IF MapHas(m, id) /\ MapGet(m, id).deleted # Absent
           THEN MapGet(m, id).deleted ELSE <<FALSE>>,
           FALSE, FALSE)

\* ------------------------------------------------------------------ the state machine
VARIABLES
    states,     \* this.states
    disk,       \* the content of .vscode/lattice.cards.json
    clock,      \* what new Date() returns
    stale,      \* the last write failed: the file lags behind the map
    lastOp,     \* the last call: its arguments and what its caller observed
    pre,        \* this.states as it was when the last call began
    marked,     \* set by a markCardAsDeleted of a known id: the id and the
                \* memory state stored just before the call
    fresh,      \* the records getOrCreateState created that were neither
                \* updated nor marked deleted since, with their creation times
    cardsByFile,  \* CardManager.cardsByFile
    files,        \* the markdown documents of the workspace
    tasks,        \* the calls of handleFileChange that wait at their await
    view,         \* the CardReviewView, when one is open: its currentCard
    gone,         \* the ids that left the manager's cards and have not come
                  \* back, each with the memory state its record had then
    obs,          \* what the last step of the manager or the view did
    counter,      \* cardIdentity.ts: let counter
    issued,       \* the first and the last id generateCardId has returned
    parsed,       \* a text given to MdParser and what parseFile made of it
    edits,        \* the calls of insertCardId that wait at their await
    boot,         \* CardManager.initialized and the calls of initialize()
                  \* that wait at their await
    webview,      \* the review page: what it displays, whether the answer
                  \* is revealed, whether the rating buttons are enabled
    posted        \* the messages posted between the view and its page that
                  \* have not been received yet, in both directions
managerVars == <<cardsByFile, files, tasks, view, gone, obs, webview, posted>>
workspaceVars == <<counter, issued, parsed, edits, boot>>
vars == <<states, disk, clock, stale, lastOp, pre, marked, fresh,
          cardsByFile, files, tasks, view, gone, obs,
          counter, issued, parsed, edits, boot, webview, posted>>

\* The files the constructor may find.
FileEntries ==
    {[type |-> "object", cardId |-> "a",
      fsrsCard |-> Present([due |-> IsoString(0), reps |-> 0, last_review |-> Absent]),
      lastReviewDate |-> Absent, deleted |-> Absent],
     [type |-> "object", cardId |-> "a", fsrsCard |-> Present([due |-> IsoString(MaxTime), reps |-> 1,
                                            last_review |-> Present(IsoString(0))]),
      lastReviewDate |-> Present(IsoString(0)), deleted |-> Present(TRUE)],
     [type |-> "object", cardId |-> "b", fsrsCard |-> Present([due |-> GarbageString, reps |-> 0, last_review |-> Absent]),
      lastReviewDate |-> Absent, deleted |-> Absent],
     [type |-> "object", cardId |-> NoId,
      fsrsCard |-> Present([due |-> IsoString(0), reps |-> 0, last_review |-> Absent]),
      lastReviewDate |-> Absent, deleted |-> Absent],
     [type |-> "object", cardId |-> "b", fsrsCard |-> Absent,
      lastReviewDate |-> Absent, deleted |-> Absent],
     NullEntry}
InitialFiles ==
    {NoFile, CorruptFile, UnreadableFile}
    \cup {ArrayFile(es) : es \in UNION {[1..n -> FileEntries] : n \in 0..MaxFileLen}}

\* No rejection handler: the rejection of saveState shows no warning.
CatchHandlerMissing(rejected) == [warnings |-> 0, threw |-> FALSE]

\* The rejection handler every caller of saveState attaches (.catch): the
\* rejection is turned into one warning message and goes no further.
CatchHandler(rejected) ==
    [warnings |-> IF rejected THEN 1 ELSE 0, threw |-> FALSE]

\* What a call leaves in lastOp.  lostFile is the file a successful write of
\* the call has replaced, when it was one loadState could not load.
Observed(op, id, now, arg, res, w, after) ==
    [op |-> op, id |-> id, now |-> now, arg |-> arg,
     ret |-> res.ret,
     threw |-> res.threw \/ CatchHandler(w.rejected).threw,
     saves |-> IF res.save THEN 1 ELSE 0,
     writeFailed |-> w.rejected,
     lostFile |-> IF res.save /\ ~w.rejected /\ LoadFails(disk)
                  THEN Present(disk) ELSE Absent,
     errors |-> w.errors,
     warnings |-> CatchHandler(w.rejected).warnings,
     afterMark |-> after]

\* The store taken alone: no manager, no workspace, no view.
NoObs == [dropped |-> {}, returned |-> {}, rate |-> << >>, fired |-> << >>]
\* The review page as its HTML describes it: nothing displayed, the answer
\* hidden, the show-answer button visible, the rating buttons disabled.
BlankPage == [shows |-> "blank", card |-> << >>, answer |-> FALSE, buttons |-> FALSE]
NoPosts == [toWebview |-> << >>, toHost |-> << >>]
PanelIdle ==
    /\ webview = BlankPage
    /\ posted = NoPosts
ManagerIdle ==
    /\ cardsByFile = << >>
    /\ files = [u \in {} |-> << >>]
    /\ tasks = {}
    /\ view = << >>
    /\ gone = {}
    /\ obs = NoObs
    /\ PanelIdle

\* No id generated, no text parsed, no insertion pending, initialize() not
\* called.
NoIssue == [first |-> NoId, last |-> NoId, calls |-> 0]
NoParse == [given |-> FALSE]
NotBooted ==
    [initialized |-> FALSE, calls |-> {}, parses |-> 0, failed |-> FALSE, threw |-> FALSE]
WorkspaceIdle ==
    /\ counter = 0
    /\ issued = NoIssue
    /\ parsed = NoParse
    /\ edits = << >>
    /\ boot = NotBooted

\* What the constructor leaves in lastOp.
ConstructorOp(file) ==
    [op |-> "constructor", id |-> NoId, now |-> 0, arg |-> Absent,
     ret |-> << >>, threw |-> loadState(file).threw, saves |-> 0,
     writeFailed |-> FALSE, lostFile |-> Absent,
     errors |-> loadState(file).errors, warnings |-> 0,
     afterMark |-> Absent]

\* The store after its constructor has loaded the file.
Constructed(file) ==
    /\ disk = file
    /\ states = loadState(file).states
    /\ clock = 0
    /\ stale = FALSE
    /\ pre = EmptyMap
    /\ marked = Absent
    /\ fresh = {}
    /\ lastOp = ConstructorOp(file)

\* The state after the constructor: the file has been loaded.
Init ==
    \E file \in InitialFiles : ManagerIdle /\ WorkspaceIdle /\ Constructed(file)

\* The outcomes of the write of a call that saves.  Any write may fail
\* whose predecessor did not, the first one included: writes fail again and
\* again, but no two in a row, so that the file lags behind the map by one
\* mutation at most.
WriteOutcomes(save) ==
    IF save /\ ~stale THEN {TRUE, FALSE} ELSE {TRUE}

\* One call of a public method, with the saveState it triggers and the
\* rejection handler of that saveState.
Call(op, id, now, arg, res) ==
    \E ok \in WriteOutcomes(res.save) :
        LET w == IF res.save THEN saveState(res.states, disk, ok)
                 ELSE [disk |-> disk, errors |-> 0, rejected |-> FALSE]
            after == IF op \in {"getOrCreateState", "markCardAsDeleted"}
                        /\ marked # Absent /\ marked[1].id = id
                     THEN marked ELSE Absent
        IN  /\ states' = res.states
            /\ disk' = w.disk
            /\ stale' = IF res.save THEN w.rejected ELSE stale
            /\ pre' = states
            /\ lastOp' = Observed(op, id, now, arg, res, w, after)
            /\ marked' = IF op = "markCardAsDeleted" /\ MapHas(states, id)
                          THEN Present([id |-> id, fsrsCard |-> MapGet(states, id).fsrsCard])
                          ELSE Absent
            /\ fresh' = IF op = "getOrCreateState" /\ id # NoId /\ ~MapHas(states, id)
                         THEN fresh \cup {[id |-> id, at |-> now]}
                         ELSE IF op \in {"updateState", "markCardAsDeleted"}
                         THEN {f \in fresh : f.id # id}
                         ELSE fresh
            /\ UNCHANGED <<clock, managerVars, workspaceVars>>

CallGetOrCreateState ==
    \E id \in CardIds \cup {NoId} :
        Call("getOrCreateState", id, clock, Absent, getOrCreateState(states, id, clock))

CallUpdateState ==
    \E id \in CardIds, newState \in ReviewedCards :
        Call("updateState", id, clock, Present(newState), updateState(states, id, newState, clock))

CallGetDueCards ==
    \E now \in Times :
        Call("getDueCards", NoId, now, Absent, getDueCards(states, now))

CallMarkCardAsDeleted ==
    \E id \in CardIds :
        Call("markCardAsDeleted", id, clock, Absent, markCardAsDeleted(states, id))

CallIsCardDeleted ==
    \E id \in CardIds :
        Call("isCardDeleted", id, clock, Absent, isCardDeleted(states, id))

\* Time passes between two calls.  What the last call left to observe is
\* dropped, and what markCardAsDeleted left in marked is kept.
Tick ==
    /\ clock < MaxTime
    /\ clock' = clock + 1
    /\ pre' = states
    /\ lastOp' = [op |-> "tick", id |-> NoId, now |-> clock + 1, arg |-> Absent,
                  ret |-> << >>, threw |-> FALSE, saves |-> 0, writeFailed |-> FALSE,
                  lostFile |-> Absent,
                  errors |-> 0, warnings |-> 0, afterMark |-> Absent]
    /\ UNCHANGED <<states, disk, stale, marked, fresh, managerVars, workspaceVars>>

Next ==
    \/ CallGetOrCreateState
    \/ CallUpdateState
    \/ CallGetDueCards
    \/ CallMarkCardAsDeleted
    \/ CallIsCardDeleted
    \/ Tick

Spec == Init /\ [][Next]_vars

\* ------------------------------------------------------------------ the card manager
\* src/src/SRS/cardManager.ts, class CardManager, with the store it owns,
\* the markdown documents it parses and the review view that listens to it.
\* A step is the synchronous part of one handler: a watcher event is handled
\* when the file changes, handleFileChange stops at its await of parseFile
\* and goes on in later steps, and the listeners of onDidUpdateCards run
\* inside the step that fires the event.

\* The markdown files of the workspace.
Uris == {"f"}
\* An MdCard, as far as the manager and the view read it.
MdCard(id, uri) == [id |-> id, sourceFile |-> uri]

\* ------------------------------------------------------------------ markdown texts
\* A text is the sequence of its lines (mdContent.split('\n')) and a line is
\* the sequence of its tokens.  A token is a run of whitespace (Space) or a
\* run of other characters that the parser's regular expressions take or
\* leave as a whole: a comment delimiter, a keyword, a card marker, a field
\* name with its colon, a word.
Space == " "
RECURSIVE trimStart(_)
trimStart(line) ==
    IF line # << >> /\ Head(line) = Space THEN trimStart(Tail(line)) ELSE line
RECURSIVE trimEnd(_)
trimEnd(line) ==
    IF line # << >> /\ line[Len(line)] = Space
    THEN trimEnd(SubSeq(line, 1, Len(line) - 1)) ELSE line
\* String.prototype.trim
trim(line) == trimEnd(trimStart(line))

\* The letters of a token in lower case: what the i flag compares.
toLowerCase(tok) ==
    CASE tok = "LATTICE:DISABLED" -> "lattice:disabled"
      [] tok = "Disabled" -> "disabled"
      [] OTHER -> tok

\* line.match(/^<!--\s*keyword\s*-->$/i)
MatchesMarker(line, keyword) ==
    /\ Len(line) >= 3
    /\ line[1] = "<!--"
    /\ line[Len(line)] = "-->"
    /\ LET inner == trim(SubSeq(line, 2, Len(line) - 1))
       IN  Len(inner) = 1 /\ toLowerCase(inner[1]) = keyword

\* The lines isFileDisabled looks at.
DisabledScanLines == 10
\* line.trim().match(lattice:disabled) || line.trim().match(disabled)
IsDisabledLine(line) ==
    \/ MatchesMarker(trim(line), "lattice:disabled")
    \/ MatchesMarker(trim(line), "disabled")

\* isFileDisabled without slice(0, 10): every line is looked at.
isFileDisabledAnyLine(mdContent) ==
    \E i \in DOMAIN mdContent : IsDisabledLine(mdContent[i])

\* MdParser.isFileDisabled
isFileDisabled(mdContent) ==
    LET lines == SubSeq(mdContent, 1,
                        IF Len(mdContent) < DisabledScanLines
                        THEN Len(mdContent) ELSE DisabledScanLines)
    IN  \E i \in DOMAIN lines : IsDisabledLine(lines[i])

\* The strings of a sequence joined with a separator (Array.prototype.join),
\* and a line as the string of its characters.
RECURSIVE join(_, _)
join(strs, sep) ==
    IF strs = << >> THEN ""
    ELSE IF Len(strs) = 1 THEN strs[1]
    ELSE strs[1] \o sep \o join(Tail(strs), sep)
LineString(line) == join(line, "")

\* The field names the model's cards use, each with its colon.
FieldNames == {"id:", "front:", "back:"}
\* trimmedLine.match(/^(\w+):\s*(.*)$/) and lines[i + 1].match(/^\w+:/)
IsFieldLine(line) == line # << >> /\ Head(line) \in FieldNames

\* setCardField, for the fields the manager and the validation read.
setCardField(card, field, value) ==
    CASE field = "id:" -> [card EXCEPT !.id = value]
      [] field = "front:" -> [card EXCEPT !.front = value]
      [] field = "back:" -> [card EXCEPT !.back = value]
      [] OTHER -> card

\* The loop of parseMdCardWithPosition over the lines of a card block, from
\* line i on.  cur is the field whose value is being collected, if any.
RECURSIVE ParseFields(_, _, _, _)
ParseFields(lines, i, card, cur) ==
    LET saved == IF cur = Absent THEN card
                 ELSE setCardField(card, cur[1].field, join(cur[1].value, "\n"))
    IN  IF i > Len(lines) THEN saved
        ELSE LET trimmedLine == trim(lines[i])
             IN  IF trimmedLine = << >> THEN ParseFields(lines, i + 1, card, cur)
                 ELSE IF IsFieldLine(trimmedLine)
                 THEN LET field == Head(trimmedLine)
                          value == LineString(trimStart(Tail(trimmedLine)))
                      IN  IF value = ""
                          THEN ParseFields(lines, i + 1, saved,
                                           Present([field |-> field, value |-> << >>]))
                          ELSE IF i < Len(lines) /\ ~IsFieldLine(lines[i + 1])
                                  /\ trim(lines[i + 1]) # << >>
                          THEN ParseFields(lines, i + 1, saved,
                                           Present([field |-> field, value |-> <<value>>]))
                          ELSE ParseFields(lines, i + 1,
                                           setCardField(saved, field, value), Absent)
                 ELSE IF cur # Absent
                 THEN ParseFields(lines, i + 1, card,
                                  Present([cur[1] EXCEPT
                                           !.value = @ \o <<LineString(trim(lines[i]))>>]))
                 ELSE ParseFields(lines, i + 1, card, cur)

\* parseMdCardWithPosition: the card of a block and where an id line goes.
\* startLine is the line of the opening marker, counted from 1.  thrown says
\* that front or back is missing.
parseMdCardWithPosition(content, startLine) ==
    LET card == ParseFields(content, 1, [id |-> NoId, front |-> "", back |-> ""], Absent)
    IN  [card |-> card,
         position |-> [startLine |-> startLine,
                       insertPosition |-> [line |-> startLine + 1, character |-> 0]],
         thrown |-> card.front = "" \/ card.back = ""]

\* /:::card\n([\s\S]*?):::/g : a block opens with a line that ends in
\* :::card and has a line after it, and ends at the first ::: after that,
\* be it the ::: of another :::card.
OpensCard(line) == line # << >> /\ line[Len(line)] = ":::card"
ClosesCard(line) == \E i \in DOMAIN line : line[i] \in {":::", ":::card"}
Least(S) == CHOOSE n \in S : \A m \in S : n <= m

\* extractMdCardsWithPosition, from line `from` on: a block that throws is
\* skipped.
RECURSIVE extractMdCardsWithPosition(_, _, _)
extractMdCardsWithPosition(mdContent, from, sourceFile) ==
    LET opens == {j \in from..(Len(mdContent) - 1) : OpensCard(mdContent[j])}
    IN  IF opens = {} THEN << >>
        ELSE LET j == Least(opens)
                 closes == {k \in (j + 1)..Len(mdContent) : ClosesCard(mdContent[k])}
             IN  IF closes = {} THEN << >>
                 ELSE LET k == Least(closes)
                          result == parseMdCardWithPosition(SubSeq(mdContent, j + 1, k - 1), j)
                      IN  (IF result.thrown THEN << >>
                           ELSE <<[card |-> MdCard(result.card.id, sourceFile),
                                   position |-> result.position]>>)
                          \o extractMdCardsWithPosition(mdContent, k + 1, sourceFile)

\* A document: its text.  NoDoc is a file that does not exist.
NoDoc == [exists |-> FALSE, text |-> << >>]
\* The marker disableCurrentFile inserts.
DisabledMarker == <<"<!--", Space, "lattice:disabled", Space, "-->">>
\* The line insertCardId inserts.
IdLine(id) == <<"id:", Space, id>>
\* A card block; one without an id has no id line.
CardBlock(id) ==
    <<<<":::card">>>>
    \o (IF id = NoId THEN << >> ELSE <<IdLine(id)>>)
    \o <<<<"front:", Space, "q">>, <<"back:", Space, "r">>, <<":::">>>>
RECURSIVE CardBlocks(_)
CardBlocks(ids) ==
    IF ids = << >> THEN << >> ELSE CardBlock(Head(ids)) \o CardBlocks(Tail(ids))
\* The document with one card block for each of ids, under the marker when
\* it is disabled.
Doc(ids, disabled) ==
    [exists |-> TRUE,
     text |-> (IF disabled THEN <<DisabledMarker>> ELSE << >>) \o CardBlocks(ids)]
\* The texts written to a file: every card block carries its id line.
DocIds == {<< >>, <<"a">>, <<"a", "b">>}

\* MdParser.parseFile: no card for a document that cannot be opened (the
\* error is caught) or that is disabled.
parseFile(uri, doc) ==
    IF ~doc.exists THEN [cards |-> << >>, positions |-> << >>]
    ELSE IF isFileDisabled(doc.text) THEN [cards |-> << >>, positions |-> << >>]
    ELSE LET results == extractMdCardsWithPosition(doc.text, 1, uri)
         IN  [cards |-> [i \in DOMAIN results |-> results[i].card],
              positions |-> [i \in DOMAIN results |-> results[i].position]]

MapDelete(m, k) == SelectSeq(m, LAMBDA e : e.key # k)

\* The store as the manager's handlers thread it through their calls.
Store(m, file, isStale) == [states |-> m, disk |-> file, stale |-> isStale]
\* The store after one call: ok is the outcome of the write, if the call
\* saves.  The rejection handler shows its warning and the handler goes on.
After(store, res, ok) ==
    IF res.save
    THEN LET w == saveState(res.states, store.disk, ok)
         IN  [states |-> res.states, disk |-> w.disk, stale |-> w.rejected]
    ELSE [states |-> res.states, disk |-> store.disk, stale |-> store.stale]

\* cardsWithIds.forEach(card => { if (card.id) getOrCreateState(card) })
RECURSIVE InitReviewStates(_, _, _, _)
InitReviewStates(store, cards, now, ok) ==
    IF cards = << >> THEN store
    ELSE InitReviewStates(
             IF Head(cards).id # NoId
             THEN After(store, getOrCreateState(store.states, Head(cards).id, now), ok)
             ELSE store,
             Tail(cards), now, ok)

\* for (const card of deletedCards) { if (card.id) markCardAsDeleted(card.id) }
RECURSIVE MarkDeletedCards(_, _, _)
MarkDeletedCards(store, cards, ok) ==
    IF cards = << >> THEN store
    ELSE MarkDeletedCards(
             IF Head(cards).id # NoId
             THEN After(store, markCardAsDeleted(store.states, Head(cards).id), ok)
             ELSE store,
             Tail(cards), ok)

\* CardManager.getAllCards: the cards of every file, in the map's order.
RECURSIVE getAllCards(_)
getAllCards(cbf) ==
    IF cbf = << >> THEN << >> ELSE Head(cbf).val \o getAllCards(Tail(cbf))

\* CardManager.getDueCards: the held cards whose id the store reports due.
managerGetDueCards(cbf, m, now) ==
    LET dueCardIds == getDueCards(m, now).ret
        includes == {dueCardIds[i] : i \in DOMAIN dueCardIds}
    IN  SelectSeq(getAllCards(cbf), LAMBDA c : c.id # NoId /\ c.id \in includes)

\* ------------------------------------------------------------------ the review view
\* The view is absent, or present with its currentCard (absent or a card).
\* Each operation gives the view and the store it leaves.
ViewOf(card) == Present([currentCard |-> card])
Outcome(v, store) == [view |-> v, store |-> store]

\* showCard: the card becomes the current one and its state is asked for.
showCard(card, store, now, ok) ==
    Outcome(ViewOf(Present(card)),
            IF card.id # NoId
            THEN After(store, getOrCreateState(store.states, card.id, now), ok)
            ELSE store)

\* showNextCard: the first due card is shown; when no card is due the
\* message says so and currentCard is left as it is.
showNextCard(v, cbf, store, now, ok) ==
    LET dueCards == managerGetDueCards(cbf, store.states, now)
    IN  IF dueCards # << >> THEN showCard(dueCards[1], store, now, ok)
        ELSE Outcome(v, store)

\* displayCurrentCard: the state of the current card is asked for.
displayCurrentCard(v, store, now, ok) ==
    IF v[1].currentCard = Absent THEN Outcome(v, store)
    ELSE LET card == v[1].currentCard[1]
         IN  Outcome(v, IF card.id # NoId
                        THEN After(store, getOrCreateState(store.states, card.id, now), ok)
                        ELSE store)

\* The view's listener of onDidUpdateCards, run by fire(evt); cbf is
\* cardsByFile as the manager has left it before firing.
onDidUpdateCards(v, evt, cbf, store, now, ok) ==
    IF v = Absent THEN Outcome(v, store)
    ELSE IF v[1].currentCard = Absent THEN Outcome(v, store)
    ELSE IF v[1].currentCard[1].sourceFile # evt.uri THEN Outcome(v, store)
    ELSE LET cur == v[1].currentCard[1]
             updatedCards == IF MapHas(cbf, evt.uri) THEN MapGet(cbf, evt.uri) ELSE << >>
             found == SelectSeq(updatedCards, LAMBDA c : c.id = cur.id)
         IN  IF found # << >>
             THEN displayCurrentCard(ViewOf(Present(found[1])), store, now, ok)
             ELSE IF evt.type = "delete"
             THEN showNextCard(v, cbf, store, now, ok)
             ELSE Outcome(v, store)

\* The ratings of the items of fsrs.repeat (Again, Hard, Good, Easy), and
\* the ratings a 'rate' message may carry.
Ratings == 1..4
MessageRatings == 0..5

\* What fsrs.repeat(state, now) may return: for each of the four ratings
\* the card it schedules, due no sooner for a higher rating.
Schedulings ==
    {s \in [Ratings -> ReviewedCards] :
        \A g, h \in Ratings : g <= h => s[g].due <= s[h].due}
\* Array.from(scheduling): the items, each with its log and its card.
ArrayFrom(scheduling) ==
    [g \in Ratings |-> [log |-> [rating |-> g], card |-> scheduling[g]]]

\* find taking the first item whatever its rating.
findFirstItem(items, rating) == Present(items[1])
\* find comparing with a test no item passes.
findNoItem(items, rating) == Absent
\* Array.from(scheduling).find(item => item.log.rating === message.rating)
findItem(items, rating) ==
    LET hits == SelectSeq(items, LAMBDA item : item.log.rating = rating)
    IN  IF hits = << >> THEN Absent ELSE Present(hits[1])

\* The 'update' message showCard posts for a card, or showNextCard posts
\* when no card is due (card absent: 'No more cards due for review!').
UpdateMessage(card) ==
    [type |-> "update", card |-> card, showAnswer |-> FALSE, enableButtons |-> FALSE]
\* The message showNextCard posts.
nextUpdate(cbf, store, now) ==
    LET dueCards == managerGetDueCards(cbf, store.states, now)
    IN  IF dueCards # << >> THEN UpdateMessage(Present(dueCards[1]))
        ELSE UpdateMessage(Absent)

\* The handler of a 'rate' message.  scheduling is what fsrs.repeat(state,
\* now) returns.  post holds the message the handler posts, if it posts one.
rateMessage(v, rating, scheduling, cbf, store, now, ok) ==
    IF v = Absent
    THEN [view |-> v, store |-> store, threw |-> FALSE, updates |-> 0, post |-> << >>]
    ELSE IF v[1].currentCard = Absent
    THEN [view |-> v, store |-> store, threw |-> FALSE, updates |-> 0, post |-> << >>]
    ELSE IF v[1].currentCard[1].id = NoId
    THEN [view |-> v, store |-> store, threw |-> FALSE, updates |-> 0, post |-> << >>]
    ELSE LET card == v[1].currentCard[1]
             state == getOrCreateState(store.states, card.id, now)
             s1 == After(store, state, ok)
             scheduleItem == findItem(ArrayFrom(scheduling), rating)
             s2 == IF scheduleItem # Absent
                   THEN After(s1, updateState(s1.states, card.id, scheduleItem[1].card, now), ok)
                   ELSE s1
             next == showNextCard(v, cbf, s2, now, ok)
         IN  [view |-> next.view, store |-> next.store,
              threw |-> state.threw,
              updates |-> IF scheduleItem # Absent THEN 1 ELSE 0,
              post |-> <<nextUpdate(cbf, s2, now)>>]

\* The page (src/lib/cards/cardReview.js).  What it displays is a card, the
\* 'No more cards' text, or nothing yet.
\* The 'update' message is received.
receiveUpdate(page, message) ==
    [shows |-> IF message.card = Absent THEN "none" ELSE "card",
     card |-> message.card,
     answer |-> message.showAnswer,
     buttons |-> message.enableButtons]
\* showAnswer(): the answer is revealed and the rating buttons are enabled.
showAnswer(page) == [page EXCEPT !.answer = TRUE, !.buttons = TRUE]
\* The show-answer button is displayed (its click and the space key work).
CanShowAnswer(page) == ~page.answer
\* A rating button is enabled (its click and its key work).
CanRate(page) == page.buttons
\* rate(rating): the message posted.  shown and answer are what the page
\* displayed when the user gave the rating; the host does not read them.
RateMessageOf(page, rating) ==
    [type |-> "rate", rating |-> rating,
     shown |-> [shows |-> page.shows, card |-> page.card], answer |-> page.answer]

\* ------------------------------------------------------------------ card identity
\* src/src/SRS/cardIdentity.ts.  Date.now() is the clock, in milliseconds;
\* r is the digit Math.floor(Math.random() * 36) gives.

\* The digits of Number.prototype.toString(36).
Digits36 ==
    <<"0", "1", "2", "3", "4", "5", "6", "7", "8", "9", "a", "b", "c", "d",
      "e", "f", "g", "h", "i", "j", "k", "l", "m", "n", "o", "p", "q", "r",
      "s", "t", "u", "v", "w", "x", "y", "z">>
RECURSIVE toString36(_)
toString36(n) ==
    IF n < 36 THEN Digits36[n + 1]
    ELSE toString36(n \div 36) \o Digits36[(n % 36) + 1]
\* String.prototype.padStart(2, '0')
padStart2(str) == IF Len(str) < 2 THEN "0" \o str ELSE str

\* The counter wraps at 36^2.
CounterModulus == 1296
\* The digits Math.random() is let to give.
MaxRandom == 1
RandomDigits == 0..MaxRandom

\* generateCardId: the id, and the counter it leaves.
generateCardId(now, cnt, r) ==
    LET timestamp == toString36(now)
        next == (cnt + 1) % CounterModulus
        counterStr == padStart2(toString36(next))
        randomChar == toString36(r)
    IN  [id |-> timestamp \o counterStr \o randomChar, counter |-> next]

\* ensureCardHasId: a card without an id gets a generated one.
ensureCardHasId(card, now, cnt, r) ==
    IF card.id = NoId
    THEN LET g == generateCardId(now, cnt, r)
         IN  [card |-> [card EXCEPT !.id = g.id], counter |-> g.counter]
    ELSE [card |-> card, counter |-> cnt]

\* isValidCardId: /^card_[0-9a-f]{8}_[0-9a-z]+$/.test(id)
CharAt(str, i) == SubSeq(str, i, i)
HexDigits == {Digits36[i] : i \in 1..16}
AlnumDigits == {Digits36[i] : i \in DOMAIN Digits36}
isValidCardId(id) ==
    /\ Len(id) >= 15
    /\ SubSeq(id, 1, 5) = "card_"
    /\ \A i \in 6..13 : CharAt(id, i) \in HexDigits
    /\ CharAt(id, 14) = "_"
    /\ \A i \in 15..Len(id) : CharAt(id, i) \in AlnumDigits

\* ------------------------------------------------------------------ the manager's handlers
\* The start of handleFileChange: existingCards is read, parseFile is called.
Task(uri, cbf) ==
    [uri |-> uri, existing |-> MapHas(cbf, uri), phase |-> "parsing",
     text |-> << >>, cards |-> << >>, positions |-> << >>]

\* The call of insertCardId that waits at its await: the id and where its
\* line is to go (position.insertPosition).
insertCardId(uri, id, position) ==
    [uri |-> uri, id |-> id, line |-> position.insertPosition.line,
     character |-> position.insertPosition.character]

\* The digit Math.random() gives the call of generateCardId for card k.
RandomOf(rs, k) == IF k \in DOMAIN rs THEN rs[k] ELSE 0
\* The cards that have no id.
Idless(cards) == {k \in DOMAIN cards : cards[k].id = NoId}

\* [...cards].reverse().map(...) with each id paired with positions[i], the
\* position of the card at the same distance from the other end.
RECURSIVE WithIdsMispaired(_, _, _, _, _, _, _)
WithIdsMispaired(uri, cards, positions, k, now, cnt, rs) ==
    IF k = 0 THEN [cards |-> << >>, counter |-> cnt, edits |-> << >>]
    ELSE LET card == cards[k]
             e == ensureCardHasId(card, now, cnt, RandomOf(rs, k))
             position == positions[(Len(cards) - k) + 1]
             rest == WithIdsMispaired(uri, cards, positions, k - 1, now, e.counter, rs)
         IN  [cards |-> rest.cards \o <<e.card>>,
              counter |-> rest.counter,
              edits |-> (IF card.id = NoId
                         THEN <<insertCardId(uri, e.card.id, position)>> ELSE << >>)
                        \o rest.edits]

\* [...cards].reverse().map((card, i) => ...).reverse(), from card k down to
\* the first: a card without an id gets one, and insertCardId is called for
\* it with positions[positions.length - 1 - i].  The calls are listed in
\* the order they are made.
RECURSIVE WithIds(_, _, _, _, _, _, _)
WithIds(uri, cards, positions, k, now, cnt, rs) ==
    IF k = 0 THEN [cards |-> << >>, counter |-> cnt, edits |-> << >>]
    ELSE LET card == cards[k]
             e == ensureCardHasId(card, now, cnt, RandomOf(rs, k))
             position == positions[Len(positions) - (Len(cards) - k)]
             rest == WithIds(uri, cards, positions, k - 1, now, e.counter, rs)
         IN  [cards |-> rest.cards \o <<e.card>>,
              counter |-> rest.counter,
              edits |-> (IF card.id = NoId
                         THEN <<insertCardId(uri, e.card.id, position)>> ELSE << >>)
                        \o rest.edits]

\* handleFileChange after its await, with the cards and positions parseFile
\* has returned.  cnt is the counter of generateCardId and rs the digits
\* Math.random() gives.  fired lists the events in the order they are fired.
handleFileChange(cbf, t, v, store, now, ok, cnt, rs) ==
    IF Len(t.cards) > 0
    THEN LET w == WithIds(t.uri, t.cards, t.positions, Len(t.cards), now, cnt, rs)
             cardsWithIds == w.cards
             s1 == InitReviewStates(store, cardsWithIds, now, ok)
             cbf2 == MapSet(cbf, t.uri, cardsWithIds)
             evt == [type |-> IF t.existing THEN "update" ELSE "add", uri |-> t.uri]
             out == onDidUpdateCards(v, evt, cbf2, s1, now, ok)
         IN  [cardsByFile |-> cbf2, view |-> out.view, store |-> out.store,
              fired |-> <<evt>>, counter |-> w.counter, edits |-> w.edits]
    ELSE IF t.existing
    THEN LET cbf2 == MapDelete(cbf, t.uri)
             evt == [type |-> "delete", uri |-> t.uri]
             out == onDidUpdateCards(v, evt, cbf2, store, now, ok)
         IN  [cardsByFile |-> cbf2, view |-> out.view, store |-> out.store,
              fired |-> <<evt>>, counter |-> cnt, edits |-> << >>]
    ELSE [cardsByFile |-> cbf, view |-> v, store |-> store,
          fired |-> << >>, counter |-> cnt, edits |-> << >>]

\* handleFileDelete: the records of the file's cards are marked deleted, the
\* file's cards are dropped and the 'delete' event is fired.
handleFileDelete(cbf, uri, v, store, now, ok) ==
    IF MapHas(cbf, uri)
    THEN LET s1 == MarkDeletedCards(store, MapGet(cbf, uri), ok)
             cbf2 == MapDelete(cbf, uri)
             evt == [type |-> "delete", uri |-> uri]
             out == onDidUpdateCards(v, evt, cbf2, s1, now, ok)
         IN  [cardsByFile |-> cbf2, view |-> out.view, store |-> out.store,
              fired |-> <<evt>>]
    ELSE [cardsByFile |-> cbf, view |-> v, store |-> store, fired |-> << >>]

\* ------------------------------------------------------------------ the manager's state machine
\* The ids of the cards the manager holds.
HeldIds(cbf) ==
    LET allCards == getAllCards(cbf)
    IN  {allCards[i].id : i \in DOMAIN allCards}

\* The store files the manager's constructor may find: none, or one with
\* the record of a reviewed card that was marked deleted.
ManagerFiles ==
    {NoFile,
     ArrayFile(<<[type |-> "object", cardId |-> "a",
                  fsrsCard |-> Present([due |-> IsoString(0), reps |-> 1,
                                        last_review |-> Present(IsoString(0))]),
                  lastReviewDate |-> Present(IsoString(0)), deleted |-> Present(TRUE)]>>)}

\* The manager before initialize(): an empty workspace, no view.
InitManager ==
    \E file \in ManagerFiles :
        /\ Constructed(file)
        /\ cardsByFile = EmptyMap
        /\ files = [u \in Uris |-> NoDoc]
        /\ tasks = {}
        /\ view = Absent
        /\ gone = {}
        /\ obs = NoObs
        /\ PanelIdle
        /\ WorkspaceIdle

\* The ids generateCardId is let to give out.
MaxIds == 2

\* The outcomes of the writes of one handler of the manager.  The manager
\* never reads the file again and a failed write changes nothing but the
\* file, so here every write succeeds; Spec is where writes fail.
ManagerWrites == {TRUE}

\* One step of the manager or the view: what it leaves, and what it did to
\* the set of held ids.
ManagerStep(cbf2, files2, tasks2, v2, store2, rate, fired) ==
    LET before == HeldIds(cardsByFile)
        after == HeldIds(cbf2)
        dropped == before \ after
        back == after \ before
    IN  /\ cardsByFile' = cbf2
        /\ files' = files2
        /\ tasks' = tasks2
        /\ view' = v2
        /\ states' = store2.states
        /\ disk' = store2.disk
        /\ stale' = store2.stale
        /\ gone' = {g \in gone : g.id \notin after}
                   \cup {[id |-> id, fsrsCard |-> MapGet(states, id).fsrsCard] :
                         id \in {i \in dropped : MapHas(states, i)}}
        /\ obs' = [dropped |-> dropped,
                   returned |-> {g \in gone : g.id \in back}, rate |-> rate,
                   fired |-> fired]
        /\ UNCHANGED <<clock, lastOp, pre, marked, fresh, issued, parsed,
                       webview, posted>>

\* A file is created or saved with a new text; the watcher calls
\* handleFileChange, which reaches its await.
WriteFile ==
    \E uri \in Uris, ids \in DocIds :
        LET doc == Doc(ids, files[uri].exists /\ isFileDisabled(files[uri].text))
        IN  /\ doc # files[uri]
            /\ Cardinality(tasks) < MaxTasks
            /\ ManagerStep(cardsByFile, [files EXCEPT ![uri] = doc],
                           tasks \cup {Task(uri, cardsByFile)}, view,
                           Store(states, disk, stale), Absent, << >>)
            /\ UNCHANGED <<counter, edits, boot>>

\* parseFile opens the document and extracts its cards.
ParseFile ==
    \E t \in tasks :
        /\ t.phase = "parsing"
        /\ LET parseResult == parseFile(t.uri, files[t.uri])
           IN  ManagerStep(cardsByFile, files,
                           (tasks \ {t}) \cup {[t EXCEPT !.phase = "parsed",
                                                         !.text = files[t.uri].text,
                                                         !.cards = parseResult.cards,
                                                         !.positions = parseResult.positions]},
                           view, Store(states, disk, stale), Absent, << >>)
        /\ UNCHANGED <<counter, edits, boot>>

\* handleFileChange goes on after its await.
HandleFileChange ==
    \E t \in tasks, ok \in ManagerWrites :
        /\ t.phase = "parsed"
        /\ \E rs \in [Idless(t.cards) -> RandomDigits] :
               LET r == handleFileChange(cardsByFile, t, view, Store(states, disk, stale),
                                         clock, ok, counter, rs)
               IN  /\ r.counter <= MaxIds
                   /\ ManagerStep(r.cardsByFile, files, tasks \ {t}, r.view, r.store,
                                   Absent, r.fired)
                   /\ counter' = r.counter
                   /\ edits' = edits \o r.edits
                   /\ UNCHANGED boot

\* A file is deleted; the watcher calls handleFileDelete.
DeleteFile ==
    \E uri \in Uris, ok \in ManagerWrites :
        /\ files[uri].exists
        /\ LET r == handleFileDelete(cardsByFile, uri, view, Store(states, disk, stale), clock, ok)
           IN  ManagerStep(r.cardsByFile, [files EXCEPT ![uri] = NoDoc],
                           tasks, r.view, r.store, Absent, r.fired)
        /\ UNCHANGED <<counter, edits, boot>>

\* enableCurrentFile's search: the first of the first 10 lines that is a
\* marker, counted from 1.
disabledLineIndex(text) ==
    Least({i \in DOMAIN text : i <= DisabledScanLines /\ IsDisabledLine(text[i])})
\* edit.delete of the whole line i
DeleteLine(text, i) == SubSeq(text, 1, i - 1) \o SubSeq(text, i + 1, Len(text))

\* disableCurrentFile on an open markdown document that is not disabled: the
\* marker is inserted and handleFileChange is called.
DisableCurrentFile ==
    \E uri \in Uris :
        /\ files[uri].exists
        /\ ~isFileDisabled(files[uri].text)
        /\ Cardinality(tasks) < MaxTasks
        /\ ManagerStep(cardsByFile,
                       [files EXCEPT ![uri].text = <<DisabledMarker>> \o @],
                       tasks \cup {Task(uri, cardsByFile)}, view,
                       Store(states, disk, stale), Absent, << >>)
        /\ UNCHANGED <<counter, edits, boot>>

\* enableCurrentFile on a disabled document: the marker is removed and
\* handleFileChange is called.
EnableCurrentFile ==
    \E uri \in Uris :
        /\ files[uri].exists
        /\ isFileDisabled(files[uri].text)
        /\ Cardinality(tasks) < MaxTasks
        /\ ManagerStep(cardsByFile,
                       [files EXCEPT ![uri].text = DeleteLine(@, disabledLineIndex(@))],
                       tasks \cup {Task(uri, cardsByFile)}, view,
                       Store(states, disk, stale), Absent, << >>)
        /\ UNCHANGED <<counter, edits, boot>>

\* The review view is opened: its constructor shows the next card.
OpenView ==
    \E ok \in ManagerWrites :
        /\ view = Absent
        /\ LET r == showNextCard(ViewOf(Absent), cardsByFile, Store(states, disk, stale), clock, ok)
           IN  ManagerStep(cardsByFile, files, tasks, r.view, r.store, Absent, << >>)
        /\ UNCHANGED <<counter, edits, boot>>

\* The memory state the store holds for a card, if it holds one.
MemoryOf(m, card) ==
    IF card = Absent THEN Absent
    ELSE IF MapHas(m, card[1].id) THEN Present(MapGet(m, card[1].id).fsrsCard)
    ELSE Absent

\* The webview posts a 'rate' message.
RateMessage ==
    \E rating \in MessageRatings, newCard \in ReviewedCards, ok \in ManagerWrites :
        /\ view # Absent
        /\ LET r == rateMessage(view, rating, [g \in Ratings |-> newCard], cardsByFile,
                                Store(states, disk, stale), clock, ok)
           IN  ManagerStep(cardsByFile, files, tasks, r.view, r.store,
                           Present([valid |-> rating \in Ratings, threw |-> r.threw,
                                updates |-> r.updates,
                                card |-> view[1].currentCard,
                                before |-> MemoryOf(states, view[1].currentCard)]),
                           << >>)
        /\ UNCHANGED <<counter, edits, boot>>

\* Time passes.
ClockTick ==
    /\ clock < MaxTime
    /\ clock' = clock + 1
    /\ obs' = NoObs
    /\ UNCHANGED <<states, disk, stale, lastOp, pre, marked, fresh,
                   cardsByFile, files, tasks, view, gone, workspaceVars,
                   webview, posted>>

NextManager ==
    \/ WriteFile
    \/ ParseFile
    \/ HandleFileChange
    \/ DeleteFile
    \/ DisableCurrentFile
    \/ EnableCurrentFile
    \/ OpenView
    \/ RateMessage
    \/ ClockTick

SpecManager == InitManager /\ [][NextManager]_vars

\* ------------------------------------------------------------------ the workspace: ids and initialize()
\* The manager with documents whose cards have no id yet, the insertions
\* of insertCardId and the calls of initialize().  No view is open.  The
\* insertions are followed in SpecInsert and initialize() in SpecBoot.

\* edit.insert(uri, new Position(line0, 0), line + '\n'): the line goes
\* before the line numbered line0, counted from 0, or after the last one.
InsertLine(text, line0, newLine) ==
    IF line0 >= Len(text) THEN text \o <<newLine>>
    ELSE SubSeq(text, 1, line0) \o <<newLine>> \o SubSeq(text, line0 + 1, Len(text))
\* The edit of insertCardId applied to a text.
applyEdit(text, e) == InsertLine(text, e.line - 1, IdLine(e.id))
RECURSIVE ApplyAll(_, _)
ApplyAll(text, es) ==
    IF es = << >> THEN text ELSE ApplyAll(applyEdit(text, Head(es)), Tail(es))

\* MdParser.parseWorkspaceFolder: the files that have cards, each with what
\* parseFile returns for it.
RECURSIVE parseWorkspaceFolder(_, _)
parseWorkspaceFolder(mdFiles, fs) ==
    IF mdFiles = {} THEN << >>
    ELSE LET uri == CHOOSE u \in mdFiles : TRUE
             parseResult == parseFile(uri, fs[uri])
         IN  (IF Len(parseResult.cards) > 0
              THEN <<[uri |-> uri, parseResult |-> parseResult]>> ELSE << >>)
             \o parseWorkspaceFolder(mdFiles \ {uri}, fs)
\* MdParser.parseWorkspace, for the one workspace folder.
parseWorkspace(fs) == parseWorkspaceFolder({u \in Uris : fs[u].exists}, fs)

\* parseResult.cards.map(card => ensureCardHasId(card)), from card k on.
RECURSIVE EnsureAll(_, _, _, _, _)
EnsureAll(cards, k, now, cnt, rs) ==
    IF k > Len(cards) THEN [cards |-> << >>, counter |-> cnt]
    ELSE LET e == ensureCardHasId(cards[k], now, cnt, RandomOf(rs, k))
             rest == EnsureAll(cards, k + 1, now, e.counter, rs)
         IN  [cards |-> <<e.card>> \o rest.cards, counter |-> rest.counter]

\* The loop of initialize() over the results of parseWorkspace.
RECURSIVE LoadResults(_, _, _, _, _, _, _, _)
LoadResults(results, cbf, v, store, now, ok, cnt, rs) ==
    IF results = << >>
    THEN [cardsByFile |-> cbf, view |-> v, store |-> store, fired |-> << >>,
          counter |-> cnt]
    ELSE LET res == Head(results)
             w == EnsureAll(res.parseResult.cards, 1, now, cnt, rs)
             cbf2 == MapSet(cbf, res.uri, w.cards)
             s1 == InitReviewStates(store, w.cards, now, ok)
             evt == [type |-> "add", uri |-> res.uri]
             out == onDidUpdateCards(v, evt, cbf2, s1, now, ok)
             rest == LoadResults(Tail(results), cbf2, out.view, out.store, now, ok,
                                 w.counter, rs)
         IN  [rest EXCEPT !.fired = <<evt>> \o @]

\* A call of initialize() that waits at its await of parseWorkspace.
InitCall(n) == [n |-> n, phase |-> "parsing", results |-> << >>]

\* initialize() without its catch: the rejection of parseWorkspace leaves
\* the call.
initializeUncaught(call, cbf, v, store, now, ok, cnt, rs) ==
    IF call.phase = "failed"
    THEN [cardsByFile |-> cbf, view |-> v, store |-> store, fired |-> << >>,
          counter |-> cnt, threw |-> TRUE, initialized |-> TRUE]
    ELSE LET r == LoadResults(call.results, cbf, v, store, now, ok, cnt, rs)
         IN  [cardsByFile |-> r.cardsByFile, view |-> r.view, store |-> r.store,
              fired |-> r.fired, counter |-> r.counter, threw |-> FALSE,
              initialized |-> TRUE]

\* initialize() after its await: the results are loaded, or the rejection
\* is caught and logged; finally initialized is set.
initialize(call, cbf, v, store, now, ok, cnt, rs) ==
    IF call.phase = "failed"
    THEN [cardsByFile |-> cbf, view |-> v, store |-> store, fired |-> << >>,
          counter |-> cnt, threw |-> FALSE, initialized |-> TRUE]
    ELSE LET r == LoadResults(call.results, cbf, v, store, now, ok, cnt, rs)
         IN  [cardsByFile |-> r.cardsByFile, view |-> r.view, store |-> r.store,
              fired |-> r.fired, counter |-> r.counter, threw |-> FALSE,
              initialized |-> TRUE]

\* The calls of initialize() that reach parseWorkspace.
MaxInits == 2
\* The texts written here: one card without an id, one with and one
\* without, two without, or no card.
IdlessDocIds == {<< >>, <<NoId>>, <<"a", NoId>>, <<NoId, NoId>>}

\* The manager after its constructor, in a workspace with the given files.
Workspace(fs) ==
    /\ Constructed(NoFile)
    /\ cardsByFile = EmptyMap
    /\ files = fs
    /\ tasks = {}
    /\ view = Absent
    /\ gone = {}
    /\ obs = NoObs
    /\ PanelIdle
    /\ WorkspaceIdle

\* A file is created with its text; the watcher (onDidCreate) calls
\* handleFileChange, which reaches its await.
WriteCards ==
    \E uri \in Uris, ids \in IdlessDocIds :
        /\ ~files[uri].exists
        /\ Cardinality(tasks) < MaxTasks
        /\ ManagerStep(cardsByFile, [files EXCEPT ![uri] = Doc(ids, FALSE)],
                       tasks \cup {Task(uri, cardsByFile)}, view,
                       Store(states, disk, stale), Absent, << >>)
        /\ UNCHANGED <<counter, edits, boot>>

\* The document is saved as it is, with the lines inserted into it; the
\* watcher calls handleFileChange.
SaveFile ==
    \E uri \in Uris :
        /\ files[uri].exists
        /\ Cardinality(tasks) < MaxTasks
        /\ ManagerStep(cardsByFile, files, tasks \cup {Task(uri, cardsByFile)}, view,
                       Store(states, disk, stale), Absent, << >>)
        /\ UNCHANGED <<counter, edits, boot>>

\* insertCardId goes on after its await: the document is opened and the
\* edit is applied to it as it is then.  When the document cannot be opened
\* the error is caught.
ApplyEdit ==
    \E i \in DOMAIN edits :
        LET e == edits[i]
        IN  /\ ManagerStep(cardsByFile,
                           IF files[e.uri].exists
                           THEN [files EXCEPT ![e.uri].text = applyEdit(@, e)]
                           ELSE files,
                           tasks, view, Store(states, disk, stale), Absent, << >>)
            /\ edits' = SubSeq(edits, 1, i - 1) \o SubSeq(edits, i + 1, Len(edits))
            /\ UNCHANGED <<counter, boot>>

\* initialize() is called while initialized is false: parseWorkspace is
\* called.  (A call that finds initialized true returns at once.)
InitializeCall ==
    /\ ~boot.initialized
    /\ boot.parses < MaxInits
    /\ boot' = [boot EXCEPT !.calls = @ \cup {InitCall(boot.parses + 1)},
                            !.parses = @ + 1]
    /\ ManagerStep(cardsByFile, files, tasks, view, Store(states, disk, stale),
                   Absent, << >>)
    /\ UNCHANGED <<counter, edits>>

\* parseWorkspace reads the files, or rejects.
ParseWorkspace ==
    \E c \in boot.calls, rejects \in BOOLEAN :
        /\ c.phase = "parsing"
        /\ boot' = [boot EXCEPT
                       !.calls = (@ \ {c})
                                 \cup {IF rejects THEN [c EXCEPT !.phase = "failed"]
                                       ELSE [c EXCEPT !.phase = "parsed",
                                                      !.results = parseWorkspace(files)]}]
        /\ ManagerStep(cardsByFile, files, tasks, view, Store(states, disk, stale),
                       Absent, << >>)
        /\ UNCHANGED <<counter, edits>>

\* The cards without an id among those initialize() is about to load.
InitIdless(c) ==
    IF c.results = << >> THEN {} ELSE Idless(Head(c.results).parseResult.cards)

\* initialize() goes on after its await.
InitializeDone ==
    \E c \in boot.calls, ok \in ManagerWrites :
        /\ c.phase \in {"parsed", "failed"}
        /\ \E rs \in [InitIdless(c) -> RandomDigits] :
               LET r == initialize(c, cardsByFile, view, Store(states, disk, stale),
                                   clock, ok, counter, rs)
               IN  /\ r.counter <= MaxIds
                   /\ ManagerStep(r.cardsByFile, files, tasks, r.view, r.store,
                                   Absent, r.fired)
                   /\ counter' = r.counter
                   /\ boot' = [boot EXCEPT !.initialized = r.initialized,
                                           !.calls = @ \ {c},
                                           !.failed = @ \/ c.phase = "failed",
                                           !.threw = @ \/ r.threw]
                   /\ UNCHANGED edits

\* The creation of a file, the saves that follow and the insertion of ids,
\* in a workspace that starts without the file.
InitInsert == Workspace([u \in Uris |-> NoDoc])
NextInsert ==
    \/ WriteCards
    \/ SaveFile
    \/ ParseFile
    \/ HandleFileChange
    \/ ApplyEdit
SpecInsert == InitInsert /\ [][NextInsert]_vars

\* initialize() and the file changes handled before, during and after it,
\* in a workspace whose file may exist: with a card that has its id, or
\* with two cards that have none.
BootDocIds == {<<"a">>, <<NoId, NoId>>}
InitBoot ==
    \E fs \in [Uris -> {NoDoc} \cup {Doc(ids, FALSE) : ids \in BootDocIds}] :
        Workspace(fs)
NextBoot ==
    \/ InitializeCall
    \/ ParseWorkspace
    \/ InitializeDone
    \/ SaveFile
    \/ ParseFile
    \/ HandleFileChange
SpecBoot == InitBoot /\ [][NextBoot]_vars

\* ------------------------------------------------------------------ the review session
\* The review view and its page, over cards the manager has loaded: no file
\* changes.  A step is one handler of the view (its constructor, its 'rate'
\* handler), one handler of the page (its 'message' listener, a click or a
\* key), or a tick of the clock.  Messages posted in one direction are
\* received in the order they were posted.

\* At most MaxPosted messages wait to be received, both directions taken
\* together.
MaxPosted == 2

\* The cards initialize() has loaded from the file, each with its record.
LoadedCards(ids) == parseFile("f", Doc(ids, FALSE)).cards
LoadedStore(ids) ==
    InitReviewStates(Store(EmptyMap, NoFile, FALSE), LoadedCards(ids), 0, TRUE)

InitReview ==
    \E ids \in DocIds :
        /\ states = LoadedStore(ids).states
        /\ disk = LoadedStore(ids).disk
        /\ stale = FALSE
        /\ clock = 0
        /\ pre = EmptyMap
        /\ marked = Absent
        /\ fresh = {}
        /\ lastOp = ConstructorOp(NoFile)
        /\ cardsByFile = IF ids = << >> THEN EmptyMap
                         ELSE <<[key |-> "f", val |-> LoadedCards(ids)]>>
        /\ files = [u \in Uris |-> Doc(ids, FALSE)]
        /\ tasks = {}
        /\ view = Absent
        /\ gone = {}
        /\ obs = NoObs
        /\ PanelIdle
        /\ WorkspaceIdle

\* One step of the view or the page.
ReviewStep(v2, store2, page2, posted2, rate) ==
    /\ view' = v2
    /\ states' = store2.states
    /\ disk' = store2.disk
    /\ stale' = store2.stale
    /\ webview' = page2
    /\ posted' = posted2
    /\ obs' = [NoObs EXCEPT !.rate = rate]
    /\ UNCHANGED <<clock, lastOp, pre, marked, fresh, cardsByFile, files, tasks,
                   gone, workspaceVars>>

\* The view is created: its constructor shows the next card.
OpenReview ==
    /\ view = Absent
    /\ LET store == Store(states, disk, stale)
           r == showNextCard(ViewOf(Absent), cardsByFile, store, clock, TRUE)
       IN  ReviewStep(r.view, r.store, webview,
                      [posted EXCEPT !.toWebview =
                                         Append(@, nextUpdate(cardsByFile, store, clock))],
                      Absent)

\* The page receives an 'update' message.
ReceiveUpdate ==
    /\ posted.toWebview # << >>
    /\ ReviewStep(view, Store(states, disk, stale),
                  receiveUpdate(webview, Head(posted.toWebview)),
                  [posted EXCEPT !.toWebview = Tail(@)], Absent)

\* The user clicks the show-answer button or presses the space key.
ShowAnswer ==
    /\ view # Absent
    /\ CanShowAnswer(webview)
    /\ ReviewStep(view, Store(states, disk, stale), showAnswer(webview), posted, Absent)

\* The user clicks a rating button or presses its key.
PressRating ==
    \E rating \in Ratings :
        /\ view # Absent
        /\ CanRate(webview)
        /\ Len(posted.toHost) + Len(posted.toWebview) < MaxPosted
        /\ ReviewStep(view, Store(states, disk, stale), webview,
                      [posted EXCEPT !.toHost = Append(@, RateMessageOf(webview, rating))],
                      Absent)

\* The view receives a 'rate' message; fsrs.repeat returns one of the given
\* schedulings.
ReceiveRateWith(schedulings) ==
    \E scheduling \in schedulings :
        /\ posted.toHost # << >>
        /\ \E message \in {Head(posted.toHost)} :
           \E r \in {rateMessage(view, message.rating, scheduling, cardsByFile,
                                 Store(states, disk, stale), clock, TRUE)} :
               ReviewStep(r.view, r.store, webview,
                          [toWebview |-> posted.toWebview \o r.post,
                           toHost |-> Tail(posted.toHost)],
                          Present([valid |-> message.rating \in Ratings,
                                   threw |-> r.threw,
                                   updates |-> r.updates,
                                   card |-> view[1].currentCard,
                                   before |-> MemoryOf(states, view[1].currentCard),
                                   rating |-> message.rating,
                                   outcome |-> scheduling[message.rating],
                                   shown |-> message.shown,
                                   answer |-> message.answer]))

ReceiveRate == ReceiveRateWith(Schedulings)

NextReview ==
    \/ OpenReview
    \/ ReceiveUpdate
    \/ ShowAnswer
    \/ PressRating
    \/ ReceiveRate
    \/ ClockTick
SpecReview == InitReview /\ [][NextReview]_vars

\* A session in which every card fsrs.repeat schedules is due after now and
\* the clock stands still, and in which the user and the two sides go on
\* whenever they can.
LaterSchedulings == {s \in Schedulings : \A g \in Ratings : s[g].due > clock}
ReceiveRateLater == ReceiveRateWith(LaterSchedulings)
NextSession ==
    \/ OpenReview
    \/ ReceiveUpdate
    \/ ShowAnswer
    \/ PressRating
    \/ ReceiveRateLater
\* The step in which the extension host takes the 'rate' message at the head
\* of its queue and runs its handler: among the steps of NextSession these
\* are the steps of ReceiveRateLater.
HostTakesRate ==
    /\ posted.toHost # << >>
    /\ \E card \in {Absent} \cup {Present(getAllCards(cardsByFile)[i]) :
                                       i \in DOMAIN getAllCards(cardsByFile)} :
       \E post \in {<< >>, <<UpdateMessage(card)>>} :
           posted' = [toWebview |-> posted.toWebview \o post,
                      toHost |-> Tail(posted.toHost)]
\* Every message posted is delivered and handled, and the user opens the
\* review, reveals the answer and rates as long as the page lets them.
SpecSession ==
    /\ InitReview
    /\ [][NextSession]_vars
    /\ WF_vars(OpenReview)
    /\ WF_vars(ReceiveUpdate)
    /\ WF_vars(ShowAnswer)
    /\ WF_vars(PressRating)
    /\ WF_posted(HostTakesRate)

\* ------------------------------------------------------------------ card identity taken alone
\* One call of generateCardId.
GenerateCardId ==
    \E r \in RandomDigits :
        LET g == generateCardId(clock, counter, r)
        IN  /\ counter' = g.counter
            /\ issued' = [first |-> IF issued.calls = 0 THEN g.id ELSE issued.first,
                          last |-> g.id,
                          calls |-> IF issued.calls < 2 THEN issued.calls + 1 ELSE 2]
            /\ UNCHANGED <<states, disk, clock, stale, lastOp, pre, marked, fresh,
                           managerVars, parsed, edits, boot>>

\* The module after it is loaded: counter is 0.
InitIds ==
    /\ Constructed(NoFile)
    /\ ManagerIdle
    /\ WorkspaceIdle

NextIds ==
    \/ GenerateCardId
    \/ ClockTick

SpecIds == InitIds /\ [][NextIds]_vars

\* ------------------------------------------------------------------ the parser taken alone
\* MdParser.parseFile on texts made of some plain lines, one line that is
\* or is not a disabled marker, and a body of card blocks or none.

\* The plain lines before the line in question: 0 to MaxLead of them.
MaxLead == 11
PlainLine == <<"x">>
Lead(k) == [i \in 1..k |-> PlainLine]

\* Whole-line markers of both forms: spaced, unspaced, in other letter
\* case, and indented with trailing whitespace.
MarkerLines ==
    {<<"<!--", Space, "lattice:disabled", Space, "-->">>,
     <<"<!--", Space, "disabled", Space, "-->">>,
     <<"<!--", "lattice:disabled", "-->">>,
     <<"<!--", "disabled", Space, "-->">>,
     <<"<!--", Space, "LATTICE:DISABLED", Space, "-->">>,
     <<"<!--", Space, "Disabled", "-->">>,
     <<Space, "<!--", Space, "lattice:disabled", Space, "-->", Space>>}
\* Lines that are no marker: plain text, a marker after or before other
\* text, a comment that is not closed, a comment with more than the keyword.
OtherLines ==
    {PlainLine,
     << >>,
     <<"x", Space, "<!--", Space, "lattice:disabled", Space, "-->">>,
     <<"<!--", Space, "disabled", Space, "-->", Space, "x">>,
     <<"<!--", Space, "disabled">>,
     <<"<!--", Space, "x", Space, "disabled", Space, "-->">>}
\* What follows the line: nothing, a card with its id, a card without.
Bodies == {<< >>, CardBlocks(<<"a">>), CardBlocks(<<NoId, "b">>)}

InitParser ==
    /\ Constructed(NoFile)
    /\ ManagerIdle
    /\ counter = 0
    /\ issued = NoIssue
    /\ edits = << >>
    /\ boot = NotBooted
    /\ \E k \in 0..MaxLead, line \in MarkerLines \cup OtherLines, body \in Bodies :
           parsed = [given |-> TRUE, lead |-> k, line |-> line, body |-> body,
                     done |-> FALSE,
                     result |-> [cards |-> << >>, positions |-> << >>]]

\* parseFile is called on the text.
ParseText ==
    /\ parsed.given
    /\ ~parsed.done
    /\ parsed' = [parsed EXCEPT
                     !.done = TRUE,
                     !.result = parseFile("f", [exists |-> TRUE,
                                                text |-> Lead(parsed.lead)
                                                         \o <<parsed.line>>
                                                         \o parsed.body])]
    /\ UNCHANGED <<states, disk, clock, stale, lastOp, pre, marked, fresh,
                   managerVars, counter, issued, edits, boot>>

NextParser == ParseText

SpecParser == InitParser /\ [][NextParser]_vars

\* ------------------------------------------------------------------ the claims
Range(seq) == {seq[i] : i \in DOMAIN seq}
Records(m) == {m[i].val : i \in DOMAIN m}
NoDuplicates(seq) == \A i, j \in DOMAIN seq : seq[i] = seq[j] => i = j

\* C1: getDueCards(now) returns exactly the cardIds of the records that are
\* not marked deleted and whose due date is a time at or before now: none of
\* them is left out, no other is returned, none is returned twice.
C1_DueCardsExact ==
    lastOp.op = "getDueCards" =>
        /\ Range(lastOp.ret) =
               {st.cardId : st \in {r \in Records(states) :
                    r.deleted # Present(TRUE) /\ r.fsrsCard.due \in 0..lastOp.now}}
        /\ NoDuplicates(lastOp.ret)

\* getDueCards has returned one card and held back a deleted one that is due.
C1_Witness ==
    /\ lastOp.op = "getDueCards"
    /\ lastOp.ret # << >>
    /\ \E r \in Records(states) :
          r.deleted = Present(TRUE) /\ r.fsrsCard.due \in 0..lastOp.now

\* C2: markCardAsDeleted(id) of an existing record followed by
\* getOrCreateState(id) returns the memory state stored just before the
\* deletion, and leaves the record not marked deleted.
C2_RestoreReturnsOldState ==
    (lastOp.op = "getOrCreateState" /\ lastOp.afterMark # Absent) =>
        /\ ~lastOp.threw
        /\ lastOp.ret = <<lastOp.afterMark[1].fsrsCard>>
        /\ MapHas(states, lastOp.id)
        /\ MapGet(states, lastOp.id).fsrsCard = lastOp.afterMark[1].fsrsCard
        /\ MapGet(states, lastOp.id).deleted # Present(TRUE)

\* A reviewed card has been marked deleted and then asked for again.
C2_Witness ==
    /\ lastOp.op = "getOrCreateState"
    /\ lastOp.afterMark # Absent
    /\ lastOp.afterMark[1].fsrsCard.reps = 1

\* C3: getOrCreateState of an id without a record adds exactly one record,
\* for that id, holding a new card due at the creation time and no deleted
\* flag; the card is then returned by getDueCards(now) for every now from
\* its creation on, as long as it is neither updated nor marked deleted.
C3_CreatedCardIsDue ==
    /\ (lastOp.op = "getOrCreateState" /\ lastOp.id # NoId /\ ~MapHas(pre, lastOp.id)) =>
          /\ Len(states) = Len(pre) + 1
          /\ \A i \in DOMAIN pre : states[i] = pre[i]
          /\ states[Len(states)] =
                [key |-> lastOp.id,
                 val |-> [cardId |-> lastOp.id,
                          fsrsCard |-> [due |-> lastOp.now, reps |-> 0, last_review |-> Absent],
                          lastReviewDate |-> Absent,
                          deleted |-> Absent]]
          /\ lastOp.ret = <<[due |-> lastOp.now, reps |-> 0, last_review |-> Absent]>>
    /\ \A f \in fresh : \A now \in f.at..MaxTime :
          f.id \in Range(getDueCards(states, now).ret)

\* A card created earlier is returned by a later getDueCards, other calls
\* having been made in between.
C3_Witness ==
    /\ lastOp.op = "getDueCards"
    /\ \E f \in fresh : f.at < lastOp.now /\ f.id \in Range(lastOp.ret)
    /\ Len(states) = 2

\* The map has the entries it had when the call began, and none but the one
\* of id has changed.
OthersUnchanged(id) ==
    /\ Len(states) = Len(pre)
    /\ \A i \in DOMAIN pre : pre[i].key # id => states[i] = pre[i]

\* C4: updateState(id, newState) of an id that has a record stores newState
\* as the record's memory state, so that a getOrCreateState of the id made
\* next returns newState; it stamps lastReviewDate with the time of the
\* call, calls saveState, and leaves every other record as it was.
C4_UpdateReplacesState ==
    (lastOp.op = "updateState" /\ MapHas(pre, lastOp.id)) =>
        /\ ~lastOp.threw
        /\ MapHas(states, lastOp.id)
        /\ MapGet(states, lastOp.id).fsrsCard = lastOp.arg[1]
        /\ MapGet(states, lastOp.id).cardId = lastOp.id
        /\ \A t \in Times : getOrCreateState(states, lastOp.id, t).ret = lastOp.arg
        /\ MapGet(states, lastOp.id).lastReviewDate = Present(IsoString(lastOp.now))
        /\ lastOp.saves = 1
        /\ OthersUnchanged(lastOp.id)

\* A record reviewed before is updated to another memory state at a later
\* time, beside a second record.
C4_Witness ==
    /\ lastOp.op = "updateState"
    /\ MapHas(pre, lastOp.id)
    /\ Len(pre) = 2
    /\ MapGet(pre, lastOp.id).fsrsCard # lastOp.arg[1]
    /\ MapGet(pre, lastOp.id).lastReviewDate = Present(IsoString(0))
    /\ lastOp.now > 0

\* C5: updateState and markCardAsDeleted of an id without a record do not
\* throw, leave the map as it was (no record created, none changed), and
\* getDueCards returns the id for no now.
C5_UnknownIdIsNoOp ==
    (lastOp.op \in {"updateState", "markCardAsDeleted"} /\ ~MapHas(pre, lastOp.id)) =>
        /\ ~lastOp.threw
        /\ states = pre
        /\ \A now \in Times : lastOp.id \notin Range(getDueCards(states, now).ret)

\* markCardAsDeleted was called with an unknown id on a map that holds a
\* record which is due.
C5_Witness ==
    /\ lastOp.op = "markCardAsDeleted"
    /\ ~MapHas(pre, lastOp.id)
    /\ getDueCards(states, MaxTime).ret # << >>

\* C6: only updateState changes a memory state: every other call leaves the
\* fsrsCard of every record as it was.
C6_OnlyUpdateChangesMemory ==
    lastOp.op # "updateState" =>
        \A i \in DOMAIN pre :
            /\ i \in DOMAIN states
            /\ states[i].key = pre[i].key
            /\ states[i].val.fsrsCard = pre[i].val.fsrsCard

\* A deleted record of a reviewed card has been restored by getOrCreateState.
C6_Witness ==
    /\ lastOp.op = "getOrCreateState"
    /\ MapHas(pre, lastOp.id)
    /\ Truthy(MapGet(pre, lastOp.id).deleted)
    /\ MapGet(pre, lastOp.id).fsrsCard.reps = 1
    /\ ~Truthy(MapGet(states, lastOp.id).deleted)

\* C7: no call removes a record: every id that had a record when a call
\* began has one when it ends.
C7_RecordsAreKept ==
    MapKeys(pre) \subseteq MapKeys(states)

\* markCardAsDeleted has marked one of two records.
C7_Witness ==
    /\ lastOp.op = "markCardAsDeleted"
    /\ MapHas(pre, lastOp.id)
    /\ Len(pre) = 2
    /\ Truthy(MapGet(states, lastOp.id).deleted)

\* Two entries of the file with the same cardId, both of them loadable.
DuplicateInFile ==
    \E i, j \in DOMAIN disk.entries :
        /\ i < j
        /\ disk.entries[i].cardId = disk.entries[j].cardId
        /\ disk.entries[i].cardId # NoId
        /\ disk.entries[i].fsrsCard # Absent
        /\ disk.entries[j].fsrsCard # Absent

\* C8: every record is stored under its own cardId, no two records have the
\* same cardId (also right after loading a file that lists one twice), and
\* no call changes the cardId of a record.
C8_KeysAreCardIds ==
    /\ \A i \in DOMAIN states : states[i].key = states[i].val.cardId
    /\ \A i, j \in DOMAIN states : states[i].val.cardId = states[j].val.cardId => i = j
    /\ \A i \in DOMAIN pre :
          i \in DOMAIN states => states[i].val.cardId = pre[i].val.cardId

\* The constructor has loaded a file that lists a cardId twice.
C8_Witness ==
    /\ lastOp.op = "constructor"
    /\ DuplicateInFile
    /\ Len(states) = 1

\* C9: a markCardAsDeleted that follows a markCardAsDeleted of the same
\* record changes nothing: the record is marked deleted and its memory state
\* is the one stored before the first of the two calls.
C9_MarkDeletedIdempotent ==
    (lastOp.op = "markCardAsDeleted" /\ lastOp.afterMark # Absent) =>
        /\ states = pre
        /\ Truthy(MapGet(states, lastOp.id).deleted)
        /\ MapGet(states, lastOp.id).fsrsCard = lastOp.afterMark[1].fsrsCard

\* markCardAsDeleted has been called twice in a row for a reviewed card.
C9_Witness ==
    /\ lastOp.op = "markCardAsDeleted"
    /\ lastOp.afterMark # Absent
    /\ lastOp.afterMark[1].fsrsCard.reps = 1

\* C10: a call whose write fails does not throw, shows a warning, and keeps
\* its change of the map: the queries made next (getOrCreateState,
\* getDueCards, isCardDeleted) answer from the changed map.
C10_FailedWriteKeepsMutation ==
    lastOp.writeFailed =>
        /\ ~lastOp.threw
        /\ lastOp.warnings >= 1
        /\ lastOp.op \in {"getOrCreateState", "updateState", "markCardAsDeleted"}
        /\ MapHas(states, lastOp.id)
        /\ lastOp.op = "getOrCreateState" =>
              /\ isCardDeleted(states, lastOp.id).ret = <<FALSE>>
              /\ \A t \in Times : getOrCreateState(states, lastOp.id, t).ret = lastOp.ret
              /\ states # pre
        /\ lastOp.op = "updateState" =>
              /\ \A t \in Times : getOrCreateState(states, lastOp.id, t).ret = lastOp.arg
              /\ MapGet(states, lastOp.id).lastReviewDate = Present(IsoString(lastOp.now))
        /\ lastOp.op = "markCardAsDeleted" =>
              /\ isCardDeleted(states, lastOp.id).ret = <<TRUE>>
              /\ \A now \in Times : lastOp.id \notin Range(getDueCards(states, now).ret)

\* The write of an updateState has failed: the map holds the new memory
\* state and the file does not.
C10_Witness ==
    /\ lastOp.op = "updateState"
    /\ lastOp.writeFailed
    /\ MapGet(states, lastOp.id).fsrsCard # MapGet(pre, lastOp.id).fsrsCard
    /\ disk # ArrayFile(Serialize(states))

\* The file is an array with one element for each record of the map, in the
\* map's order, holding the record's id, memory state, review date and
\* deleted flag.
FileHolds(file, m) ==
    /\ file.kind = "array"
    /\ Len(file.entries) = Len(m)
    /\ \A i \in DOMAIN m :
          LET e == file.entries[i]
              st == m[i].val
          IN  /\ e.type = "object"
              /\ e.cardId = m[i].key
              /\ e.fsrsCard # Absent
              /\ e.fsrsCard[1].due = (IF st.fsrsCard.due \in Times
                                      THEN IsoString(st.fsrsCard.due) ELSE JsonNull)
              /\ e.fsrsCard[1].reps = st.fsrsCard.reps
              /\ Len(e.fsrsCard[1].last_review) = Len(st.fsrsCard.last_review)
              /\ e.lastReviewDate = st.lastReviewDate
              /\ e.deleted = st.deleted

\* C11: every call that changes the map calls saveState, and a saveState
\* that succeeds leaves in the file the whole map as it is when the call
\* returns: while the last write has not failed, the file holds the records
\* of the map, or no call has written yet and the map is what the
\* constructor loaded from the file.
C11_FileFollowsMap ==
    /\ (lastOp.op \notin {"constructor", "tick"} /\ states # pre) => lastOp.saves = 1
    /\ (lastOp.saves = 1 /\ ~lastOp.writeFailed) => FileHolds(disk, states)
    /\ ~stale => \/ FileHolds(disk, states)
                 \/ states = loadState(disk).states

\* A record has been marked deleted beside another one, and the write that
\* followed has put both in the file.
C11_Witness ==
    /\ lastOp.op = "markCardAsDeleted"
    /\ lastOp.saves = 1
    /\ ~lastOp.writeFailed
    /\ Len(states) = 2
    /\ Len(disk.entries) = 2
    /\ states # pre

\* C12: the file saveState writes for the map, loaded by a new store, gives
\* the same map: the same ids, each with the same due date, last_review and
\* deleted flag.
C12_RoundTrip ==
    loadState(ArrayFile(Serialize(states))).states = states

\* An element of the array with a cardId and an fsrsCard.
WellFormed(e) == e.type = "object" /\ e.cardId # NoId /\ e.fsrsCard # Absent

\* C13: after the constructor has loaded an array, the map holds a record
\* for the cardId of every well-formed element, whatever malformed elements
\* (no cardId, no fsrsCard, null) stand beside it.
C13_MalformedEntriesSkipped ==
    (lastOp.op = "constructor" /\ disk.kind = "array") =>
        MapKeys(states) = {e.cardId : e \in {x \in Range(disk.entries) : WellFormed(x)}}

\* C14: after the constructor has loaded an array, the map holds no record
\* for a cardId whose only elements have a due date that is no date.
C14_UnparseableDateSkipped ==
    (lastOp.op = "constructor" /\ disk.kind = "array") =>
        \A e \in Range(disk.entries) :
            (/\ WellFormed(e)
             /\ NewDate(e.fsrsCard[1].due) = InvalidDate
             /\ \A x \in Range(disk.entries) :
                   (WellFormed(x) /\ x.cardId = e.cardId) => x = e)
            => ~MapHas(states, e.cardId)

\* C15: when the file cannot be read or parsed, the constructor does not
\* throw and shows an error message, the map is empty, getDueCards returns
\* no card for any now, and getOrCreateState creates the record of any card.
C15_BadFileStartsEmpty ==
    (lastOp.op = "constructor" /\ disk.kind \in {"corrupt", "unreadable"}) =>
        /\ ~lastOp.threw
        /\ lastOp.errors >= 1
        /\ states = EmptyMap
        /\ \A now \in Times : getDueCards(states, now).ret = << >>
        /\ \A id \in CardIds, now \in Times :
              LET r == getOrCreateState(states, id, now)
              IN  /\ ~r.threw
                  /\ r.save
                  /\ MapKeys(r.states) = {id}
                  /\ r.ret = <<createEmptyCard(now)>>
                  /\ getDueCards(r.states, now).ret = <<id>>

\* The constructor has found a file that is no JSON.
C15_Witness ==
    /\ lastOp.op = "constructor"
    /\ disk = CorruptFile
    /\ lastOp.errors = 1

\* C16: a card that leaves the cards the manager holds, and has a record
\* in the store, has its record marked deleted when the step that drops it
\* is over.
C16_DroppedCardsMarkedDeleted ==
    \A id \in obs.dropped :
        MapHas(states, id) => Truthy(MapGet(states, id).deleted)

\* C17: when a card that had left the manager's cards is parsed again and
\* held again, its record is not marked deleted and holds the memory state
\* it held when the card left.
C17_ReturnedCardKeepsState ==
    \A r \in obs.returned :
        /\ MapHas(states, r.id)
        /\ ~Truthy(MapGet(states, r.id).deleted)
        /\ MapGet(states, r.id).fsrsCard = r.fsrsCard

\* C18: a 'rate' message whose rating is none of the four, received while
\* a card with an id is current, is answered by an error, and the memory
\* state stored for the card is left as it was.
C18_InvalidRatingRejected ==
    (/\ obs.rate # Absent
     /\ ~obs.rate[1].valid
     /\ obs.rate[1].card # Absent) =>
        /\ obs.rate[1].threw
        /\ MemoryOf(states, obs.rate[1].card) = obs.rate[1].before

\* C23: every id generateCardId returns differs from every id it returned
\* before, however many calls are made and however many of them fall into
\* the same millisecond.  Stated for the first id: no later call returns it
\* again.
C23_IdsNeverRepeat ==
    issued.calls >= 2 => issued.last # issued.first

\* The text has a whole-line marker among its first 10 lines.
MarkerInFirstTen == parsed.line \in MarkerLines /\ parsed.lead + 1 <= 10
ReturnsNothing == parsed.result.cards = << >> /\ parsed.result.positions = << >>

\* C30, as claimed: parseFile returns no cards and no positions exactly when
\* one of the first 10 lines, trimmed, is a whole-line disabled marker.
C30_NothingExactlyWhenDisabled ==
    parsed.given /\ parsed.done => (ReturnsNothing <=> MarkerInFirstTen)

\* C30, amended: for a text that holds a valid card block, parseFile returns
\* no cards and no positions exactly when one of the first 10 lines,
\* trimmed, is a whole-line disabled marker of either form, in any letter
\* case and with any whitespace inside the comment; a marker on line 11 or
\* later, or within a longer line, does not disable the file.
C30_DisabledExactlyWhenMarked ==
    parsed.given /\ parsed.done /\ parsed.body # << >> =>
        (ReturnsNothing <=> MarkerInFirstTen)
\* A text with cards whose 10th line is a marker has been parsed to nothing.
C30_Witness ==
    /\ parsed.given /\ parsed.done
    /\ parsed.body # << >>
    /\ parsed.lead = 9
    /\ parsed.line \in MarkerLines
    /\ ReturnsNothing

\* C29: CardManager.getDueCards(now) returns only cards the manager holds
\* for a file, that carry an id and whose record is not deleted and due at
\* now; none of them belongs to a file that has been deleted, or to a
\* disabled file once the change that disabled it has been handled.
C29_DueCardsAreLive ==
    \A now \in Times :
        LET dueCards == managerGetDueCards(cardsByFile, states, now)
        IN  \A i \in DOMAIN dueCards :
                LET card == dueCards[i]
                    uri == card.sourceFile
                IN  /\ MapHas(cardsByFile, uri)
                    /\ \E j \in DOMAIN MapGet(cardsByFile, uri) :
                           MapGet(cardsByFile, uri)[j] = card
                    /\ card.id # NoId
                    /\ MapHas(states, card.id)
                    /\ ~Truthy(MapGet(states, card.id).deleted)
                    /\ DateLE(MapGet(states, card.id).fsrsCard.due, now)
                    /\ files[uri].exists
                    /\ isFileDisabled(files[uri].text) => \E t \in tasks : t.uri = uri

\* The step is handleFileChange going on, after its await, for task t.
Handles(t) == t.phase = "parsed" /\ tasks' = tasks \ {t}

\* C27: a handled file change that yields at least one card stores the
\* cards and fires exactly one event: 'add' when the manager held no cards
\* for the file just before, 'update' otherwise.  (After a 'delete' the
\* manager holds no cards for the file, so the next such change is to fire
\* 'add'.)
C27_AddOrUpdateFollowsHeld ==
    [][\A t \in tasks :
          Handles(t) /\ Len(t.cards) > 0 =>
              /\ MapHas(cardsByFile', t.uri)
              /\ Len(MapGet(cardsByFile', t.uri)) = Len(t.cards)
              /\ obs'.fired = <<[type |-> IF MapHas(cardsByFile, t.uri)
                                          THEN "update" ELSE "add",
                                 uri |-> t.uri]>>]_vars

\* C28: a step that drops a file's cards fires exactly one 'delete' event,
\* for that file, and no 'delete' event is fired for a file the manager
\* held no cards for.
C28_DeleteFollowsDrop ==
    [][/\ \A uri \in Uris :
             MapHas(cardsByFile, uri) /\ ~MapHas(cardsByFile', uri) =>
                 obs'.fired = <<[type |-> "delete", uri |-> uri]>>
       /\ \A i \in DOMAIN obs'.fired :
             obs'.fired[i].type = "delete" => MapHas(cardsByFile, obs'.fired[i].uri)]_vars

\* The ids of a sequence of cards.
IdsOf(cards) == {cards[k].id : k \in DOMAIN cards}

\* C24: when handleFileChange goes on with the cards of a file, every card
\* that had an id keeps it and causes no insertion, and every card that had
\* none gets a newly generated id of its own and one insertion of the line
\* 'id: <id>'; the insertions, applied to the text that was parsed in the
\* order they were called for, put each id into the block of its own card,
\* so that the text then parses to the cards the manager holds.
C24_IdlessCardsGetIds ==
    [][\A t \in tasks :
          Handles(t) /\ Len(t.cards) > 0 =>
              LET held == MapGet(cardsByFile', t.uri)
                  calls == SubSeq(edits', Len(edits) + 1, Len(edits'))
                  inserted == ApplyAll(t.text, calls)
              IN  /\ DOMAIN held = DOMAIN t.cards
                  /\ \A k \in DOMAIN t.cards :
                         IF t.cards[k].id # NoId
                         THEN /\ held[k] = t.cards[k]
                              /\ \A i \in DOMAIN calls : calls[i].id # held[k].id
                         ELSE /\ held[k].id \notin {NoId} \cup IdsOf(t.cards)
                              /\ \A j \in DOMAIN held : held[j].id = held[k].id => j = k
                              /\ Cardinality({i \in DOMAIN calls :
                                                  calls[i].id = held[k].id}) = 1
                  /\ Len(calls) = Cardinality(Idless(t.cards))
                  /\ parseFile(t.uri, [exists |-> TRUE, text |-> inserted]).cards = held]_vars
\* A change of a file with a card that has an id and one that has none has
\* been handled: the first is held with its id, the second with a generated
\* one, whose insertion waits.
C24_Witness ==
    /\ obs.fired # << >>
    /\ MapHas(cardsByFile, "f")
    /\ Len(MapGet(cardsByFile, "f")) = 2
    /\ MapGet(cardsByFile, "f")[1].id = "a"
    /\ MapGet(cardsByFile, "f")[2].id \notin {NoId, "a"}
    /\ \E i \in DOMAIN edits : edits[i].id = MapGet(cardsByFile, "f")[2].id

\* C25: parseWorkspace is called at most once for a manager, however many
\* times initialize() is called and whether or not an earlier call has
\* completed.
C25_WorkspaceParsedOnce ==
    boot.parses <= 1

\* initialize() goes on, after its await, for a call whose parseWorkspace
\* was rejected.
FailedInitDone(c) == c.phase = "failed" /\ boot'.calls = boot.calls \ {c}
\* A file change handled after such a call stores its cards and fires its event.
UsableAfterFailure ==
    \A t \in tasks :
        boot.failed /\ Handles(t) /\ Len(t.cards) > 0 =>
            MapHas(cardsByFile', t.uri) /\ Len(obs'.fired) = 1

\* C26, as claimed: when parseWorkspace is rejected, initialize() completes
\* without throwing, the manager holds no cards, no event is fired, and
\* later file changes are handled.
C26_FailedInitLeavesNoCards ==
    [][/\ \A c \in boot.calls :
             FailedInitDone(c) =>
                 /\ ~boot'.threw
                 /\ boot'.initialized
                 /\ getAllCards(cardsByFile') = << >>
                 /\ obs'.fired = << >>
       /\ UsableAfterFailure]_vars

\* C26, amended: when parseWorkspace is rejected, initialize() completes
\* without throwing, it leaves the manager's cards and the store as they
\* were (no cards, unless a file change has been handled in the meantime),
\* it fires no event, and later file changes are handled.
C26_FailedInitChangesNothing ==
    [][/\ \A c \in boot.calls :
             FailedInitDone(c) =>
                 /\ ~boot'.threw
                 /\ boot'.initialized
                 /\ cardsByFile' = cardsByFile
                 /\ states' = states
                 /\ obs'.fired = << >>
       /\ UsableAfterFailure]_vars
\* initialize() has failed and a file change handled afterwards has fired
\* its event.
C26_Witness ==
    /\ boot.failed
    /\ boot.initialized
    /\ ~boot.threw
    /\ obs.fired # << >>
    /\ MapHas(cardsByFile, "f")

\* C40: isValidCardId accepts every id generateCardId produces.
C40_GeneratedIdsAreValid ==
    issued.calls >= 1 => isValidCardId(issued.last)

\* C39: updateState leaves the deleted flag of the record as it was and
\* stores the new memory state; a record that is marked deleted stays in the
\* map, stays marked and is in no result of getDueCards, whatever is called,
\* until getOrCreateState is called for its id.
C39_UpdateKeepsDeletedFlag ==
    [][/\ (lastOp'.op = "updateState" /\ MapHas(states, lastOp'.id)) =>
              /\ MapHas(states', lastOp'.id)
              /\ MapGet(states', lastOp'.id).deleted = MapGet(states, lastOp'.id).deleted
              /\ MapGet(states', lastOp'.id).fsrsCard = lastOp'.arg[1]
       /\ \A id \in MapKeys(states) :
              (/\ Truthy(MapGet(states, id).deleted)
               /\ ~(lastOp'.op = "getOrCreateState" /\ lastOp'.id = id)) =>
                  /\ MapHas(states', id)
                  /\ Truthy(MapGet(states', id).deleted)
                  /\ \A now \in Times : id \notin Range(getDueCards(states', now).ret)]_vars
\* A record marked deleted has been updated with a state that is due, and
\* is still marked.
C39_Witness ==
    /\ lastOp.op = "updateState"
    /\ MapHas(pre, lastOp.id)
    /\ Truthy(MapGet(pre, lastOp.id).deleted)
    /\ Truthy(MapGet(states, lastOp.id).deleted)
    /\ MapGet(states, lastOp.id).fsrsCard = lastOp.arg[1]
    /\ DateLE(lastOp.arg[1].due, clock)

\* C38: when loadState has failed the map starts empty, and as long as the
\* file is the one that could not be loaded, a write that succeeds replaces
\* it by the snapshot of the map: after the first mutation, the one record
\* that mutation created.  Nothing of the old file is carried over.
C38_FailedLoadLosesFile ==
    /\ (lastOp.op = "constructor" /\ LoadFails(disk)) => states = EmptyMap
    /\ [][(LoadFails(disk) /\ lastOp'.saves = 1 /\ ~lastOp'.writeFailed) =>
              /\ disk' = ArrayFile(Serialize(states'))
              /\ states = EmptyMap =>
                     disk'.entries = <<StateToJSON(NewState(lastOp'.id, clock))>>]_vars
\* A file with a well-formed record and a null element could not be loaded,
\* and the first successful write has replaced it by a file without that
\* record.
C38_Witness ==
    /\ lastOp.lostFile # Absent
    /\ disk = ArrayFile(Serialize(states))
    /\ \E e \in Range(lastOp.lostFile[1].entries) :
           WellFormed(e) /\ e.cardId \notin MapKeys(states)

\* C34: whenever the view applies a rating (the 'rate' handler updates the
\* store), the card it rates is one the manager holds.
C34_RatedCardIsHeld ==
    (obs.rate # Absent /\ obs.rate[1].updates = 1) =>
        \E i \in DOMAIN getAllCards(cardsByFile) :
            getAllCards(cardsByFile)[i] = obs.rate[1].card[1]

\* The step is the 'rate' handler receiving a valid rating while a card
\* with an id is current.
RatesCurrentCard ==
    /\ obs'.rate # Absent
    /\ obs'.rate[1].valid
    /\ obs'.rate[1].card # Absent
    /\ obs'.rate[1].card[1].id # NoId

\* C31: the 'rate' handler, given one of the four ratings while a card with
\* an id is current, makes one update of the store: the record of the
\* current card gets the card of the item of fsrs.repeat whose rating is
\* the message's, and no other record's memory state changes.  The next
\* card is the first of the cards due once that update is in the store, and
\* it is the one the posted 'update' message shows.
C31_RatingUpdatesCurrentCard ==
    [][RatesCurrentCard =>
          LET rate == obs'.rate[1]
              id == rate.card[1].id
              dueCards == managerGetDueCards(cardsByFile, states', clock)
          IN  /\ rate.updates = 1
              /\ MapKeys(states') = MapKeys(states) \cup {id}
              /\ MapGet(states', id).fsrsCard = rate.outcome
              /\ \A k \in MapKeys(states) \ {id} :
                     MapGet(states', k).fsrsCard = MapGet(states, k).fsrsCard
              /\ view'[1].currentCard = IF dueCards # << >> THEN Present(dueCards[1])
                                        ELSE view[1].currentCard
              /\ posted'.toWebview =
                     Append(posted.toWebview,
                            UpdateMessage(IF dueCards # << >> THEN Present(dueCards[1])
                                          ELSE Absent))]_vars
\* Card a has been rated Good with an outcome due later, its record holds
\* that outcome, and card b has become the current card.
C31_Witness ==
    /\ obs.rate # Absent
    /\ obs.rate[1].updates = 1
    /\ obs.rate[1].rating = 3
    /\ obs.rate[1].card = Present(MdCard("a", "f"))
    /\ obs.rate[1].outcome.due > clock
    /\ MapGet(states, "a").fsrsCard = obs.rate[1].outcome
    /\ view[1].currentCard = Present(MdCard("b", "f"))

\* C33: a rating the host applies is applied to the card the page displayed,
\* with its answer revealed, when the user gave the rating.
C33_RatedCardWasShown ==
    (obs.rate # Absent /\ obs.rate[1].updates = 1) =>
        /\ obs.rate[1].shown.shows = "card"
        /\ obs.rate[1].shown.card = obs.rate[1].card
        /\ obs.rate[1].answer

\* C32: in a session without file changes, where every rescheduled card is
\* due after now and the clock stands still, a rating that is applied takes
\* the rated card out of the due cards, and the page comes to display 'No
\* more cards due for review' with no card due.
C32_SessionEnds ==
    /\ [][(obs'.rate # Absent /\ obs'.rate[1].updates = 1) =>
             \A i \in DOMAIN managerGetDueCards(cardsByFile, states', clock) :
                 managerGetDueCards(cardsByFile, states', clock)[i].id
                     # obs'.rate[1].card[1].id]_vars
    /\ <>(/\ webview.shows = "none"
          /\ managerGetDueCards(cardsByFile, states, clock) = << >>)
\* Two cards were due, both have been rated, and the page displays 'No more
\* cards due for review'.
C32_Witness ==
    /\ webview.shows = "none"
    /\ Len(getAllCards(cardsByFile)) = 2
    /\ \A id \in {"a", "b"} : MapHas(states, id) /\ MapGet(states, id).fsrsCard.reps = 1
    /\ managerGetDueCards(cardsByFile, states, clock) = << >>


\* The lines of a text that are id lines, and those that open a card block.
IdLinesIn(text) == {k \in DOMAIN text : Len(text[k]) = 3 /\ text[k][1] = "id:"}
MarkersIn(text) == {k \in DOMAIN text : OpensCard(text[k])}

\* C35: whatever way the changes of a file and the pending insertions
\* interleave, a card gets one id: the store holds no more records than the
\* file has card blocks, and the file holds no more id lines than card
\* blocks once no insertion is pending.
C35_OneIdPerCard ==
    \A u \in Uris :
        /\ Len(states) <= Cardinality(MarkersIn(files[u].text))
        /\ edits = << >> =>
               Cardinality(IdLinesIn(files[u].text))
                   <= Cardinality(MarkersIn(files[u].text))

\* C36: every id line of a document stands directly after the opening
\* marker of a card block, in whatever order the pending insertions are
\* applied.
C36_IdLinesFollowMarkers ==
    \A u \in Uris :
        \A k \in IdLinesIn(files[u].text) :
            k > 1 /\ OpensCard(files[u].text[k - 1])

\* C37: every id that has a review-state record is written in the source
\* text of a card, or its insertion has been called for.
C37_RecordedIdsAreWritten ==
    \A id \in MapKeys(states) :
        \/ \E u \in Uris :
               files[u].exists /\ \E k \in DOMAIN files[u].text : files[u].text[k] = IdLine(id)
        \/ \E i \in DOMAIN edits : edits[i].id = id

====
